---------------------------- MODULE Spec2Model ----------------------------
(***************************************************************************)
(* A model of pysics: the Dimension / Quantity algebra of                  *)
(* src/pysics/units.py and the sampled-function container DataArray of     *)
(* src/arrays.py (resampling of two arrays on a common grid, call as a     *)
(* function, integ, sampleFunction).                                       *)
(*                                                                         *)
(* Python values are records with the fields kind, arr, value, unit, exc:  *)
(*   kind = "number"    a bare Python / numpy number (arr = FALSE) or a    *)
(*                      bare numpy array (arr = TRUE);                     *)
(*   kind = "Quantity"  an instance of units.Quantity, value being its     *)
(*                      payload and unit its Dimension;                    *)
(*   kind = "bool"      the result of a comparison (a bool, or with        *)
(*                      arr = TRUE a numpy array of bools);                *)
(*   kind = "error"     a raised exception, exc naming its class.          *)
(* Numeric payloads are exact rationals <<numerator, denominator>>: the    *)
(* rounding of floating point is not modelled.                             *)
(***************************************************************************)
EXTENDS Integers, Sequences, FiniteSets, TLC

VARIABLES op, self, other, a, b, function, nb_points, result, arrays

vars == <<op, self, other, a, b, function, nb_points, result, arrays>>

---------------------------------------------------------------------------
(* Exact rational arithmetic standing for Python's float arithmetic.       *)

Abs(i) == IF i < 0 THEN -i ELSE i

RECURSIVE GCD(_, _)
GCD(i, j) == IF j = 0 THEN i ELSE GCD(j, i % j)

\* n/d divided through by g, with a positive denominator.
Lowest(n, d, g) ==
    IF d < 0 THEN <<(-n) \div g, (-d) \div g>> ELSE <<n \div g, d \div g>>

\* The rational n/d in lowest terms with a positive denominator (d # 0).
Rat(n, d) == Lowest(n, d, GCD(Abs(n), Abs(d)))

Int2Rat(i) == <<i, 1>>

RatAdd(p, q) == Rat(p[1] * q[2] + q[1] * p[2], p[2] * q[2])
RatSub(p, q) == Rat(p[1] * q[2] - q[1] * p[2], p[2] * q[2])
RatMul(p, q) == Rat(p[1] * q[1], p[2] * q[2])
\* Division by zero (inf / nan, or ZeroDivisionError) is outside the model:
\* no divisor of the model is zero; <<0, 0>> marks the case.
RatDiv(p, q) == IF q[1] = 0 THEN <<0, 0>> ELSE Rat(p[1] * q[2], p[2] * q[1])
RatEq(p, q) == p[1] * q[2] = q[1] * p[2]
RatNe(p, q) == ~RatEq(p, q)
RatLt(p, q) == p[1] * q[2] < q[1] * p[2]
RatGt(p, q) == RatLt(q, p)
RatLe(p, q) == ~RatLt(q, p)
RatGe(p, q) == ~RatLt(p, q)
RatAbs(p) == <<Abs(p[1]), p[2]>>
\* ceil(p) for a rational p.
RatCeil(p) == -((-p[1]) \div p[2])
\* p % q for floats: p - floor(p / q) * q, of the sign of q (q # 0).
RatMod(p, q) ==
    LET k == RatDiv(p, q)
    IN  RatSub(p, RatMul(Int2Rat(k[1] \div k[2]), q))

RECURSIVE SeqMin(_)
SeqMin(s) ==
    IF Len(s) = 1 THEN s[1]
    ELSE LET m == SeqMin(Tail(s)) IN IF RatLt(m, s[1]) THEN m ELSE s[1]

RECURSIVE SeqMax(_)
SeqMax(s) ==
    IF Len(s) = 1 THEN s[1]
    ELSE LET m == SeqMax(Tail(s)) IN IF RatLt(s[1], m) THEN m ELSE s[1]

---------------------------------------------------------------------------
(* units.py: Dimension                                                     *)

list_of_basic_SI_units == {"m", "s", "kg", "A", "K", "cd", "mol", "rad"}

\* Dimension.__init__ with definition None ("None") or a base unit name.
Dimension(definition) ==
    [base_unit \in list_of_basic_SI_units |->
        IF base_unit = definition THEN 1 ELSE 0]

Dimension_mul(x, y) == [key \in list_of_basic_SI_units |-> x[key] + y[key]]

\* Dimension.__div__ adding the exponents as __mul__ does.
Dimension_div_adding(x, y) == [key \in list_of_basic_SI_units |-> x[key] + y[key]]

Dimension_div(x, y) == [key \in list_of_basic_SI_units |-> x[key] - y[key]]

Dimension_eq(x, y) == \A key \in list_of_basic_SI_units : x[key] = y[key]

---------------------------------------------------------------------------
(* Python values                                                           *)

NoUnit == Dimension("None")

\* A bare number with payload v (a rational).
Number(v) ==
    [kind |-> "number", arr |-> FALSE, value |-> v, unit |-> NoUnit, exc |-> "none"]

\* A bare numpy array with elements vs (a sequence of rationals).
NdArray(vs) ==
    [kind |-> "number", arr |-> TRUE, value |-> vs, unit |-> NoUnit, exc |-> "none"]

Bool(bv) ==
    [kind |-> "bool", arr |-> FALSE, value |-> bv, unit |-> NoUnit, exc |-> "none"]

BoolArray(bvs) ==
    [kind |-> "bool", arr |-> TRUE, value |-> bvs, unit |-> NoUnit, exc |-> "none"]

\* A raised exception of class e.
Raise(e) ==
    [kind |-> "error", arr |-> FALSE, value |-> <<0, 1>>, unit |-> NoUnit, exc |-> e]

\* No value (Python's None).
None == [kind |-> "none", arr |-> FALSE, value |-> <<0, 1>>, unit |-> NoUnit, exc |-> "none"]

IsError(x) == x.kind = "error"
IsQuantity(x) == x.kind = "Quantity"
IsNumber(x) == x.kind = "number"

\* Two payloads (with their arr flags) hold the same numbers.
SamePayload(x, y) ==
    /\ x.arr = y.arr
    /\ IF x.arr
       THEN /\ Len(x.value) = Len(y.value)
            /\ \A i \in 1..Len(x.value) : RatEq(x.value[i], y.value[i])
       ELSE RatEq(x.value, y.value)

\* The arithmetic operator F of Python on two floats.
Arith(F, p, q) ==
    CASE F = "+" -> RatAdd(p, q)
      [] F = "-" -> RatSub(p, q)
      [] F = "*" -> RatMul(p, q)
      [] OTHER   -> RatDiv(p, q)

\* The comparison operator P of Python on two floats.
Rel(P, p, q) ==
    CASE P = "==" -> RatEq(p, q)
      [] P = "!=" -> RatNe(p, q)
      [] P = "<"  -> RatLt(p, q)
      [] P = ">"  -> RatGt(p, q)
      [] P = "<=" -> RatLe(p, q)
      [] OTHER    -> RatGe(p, q)

\* The element of index i of the bare array x, a scalar x being broadcast.
Broadcast(x, i) == IF x.arr THEN x.value[i] ELSE x.value

\* numpy's elementwise arithmetic F on two bare numbers, a scalar being
\* broadcast over an array; arrays of different lengths do not broadcast.
Elementwise(F, x, y) ==
    IF ~x.arr /\ ~y.arr THEN Number(Arith(F, x.value, y.value))
    ELSE IF x.arr /\ y.arr /\ Len(x.value) # Len(y.value) THEN Raise("ValueError")
    ELSE NdArray([i \in 1..Len(IF x.arr THEN x.value ELSE y.value) |->
                     Arith(F, Broadcast(x, i), Broadcast(y, i))])

\* numpy's elementwise comparison P on two bare numbers.
Compare(P, x, y) ==
    IF ~x.arr /\ ~y.arr THEN Bool(Rel(P, x.value, y.value))
    ELSE IF x.arr /\ y.arr /\ Len(x.value) # Len(y.value) THEN Raise("ValueError")
    ELSE BoolArray([i \in 1..Len(IF x.arr THEN x.value ELSE y.value) |->
                       Rel(P, Broadcast(x, i), Broadcast(y, i))])

\* The bare payload of a Quantity or number, as a bare number.
Payload(x) == IF x.arr THEN NdArray(x.value) ELSE Number(x.value)

\* bool(x) of a comparison result, as Python's "or" and "if" evaluate it:
\* an array of more than one element has no truth value.
Truth(x) ==
    CASE x.kind = "error" -> x
      [] x.arr /\ Len(x.value) # 1 -> Raise("ValueError")
      [] x.arr -> Bool(x.value[1])
      [] OTHER -> x

---------------------------------------------------------------------------
(* units.py: Quantity                                                      *)

\* Quantity.__init__(value, unit): value is a bare number or array.
Quantity(value, u) ==
    IF IsError(value) THEN value
    ELSE [kind |-> "Quantity", arr |-> value.arr, value |-> value.value,
          unit |-> u, exc |-> "none"]

turn_to_Quantity(x) ==
    CASE IsQuantity(x) -> x
      [] IsNumber(x) -> Quantity(x, Dimension("None"))
      [] OTHER -> Raise("TypeError")

unitless == Quantity(Number(Int2Rat(1)), Dimension("None"))

\* unit(quantity_or_float): the unit attribute, or unitless.unit without one.
unit(quantity_or_float) ==
    IF IsQuantity(quantity_or_float) THEN quantity_or_float.unit ELSE unitless.unit

SIValue(quantity_or_float) == Payload(quantity_or_float)

isDimensionless(q) == Dimension_eq(q.unit, Dimension("None"))

\* removeUnitIfPossible that never unwraps.
removeUnitIfPossible_never(q) == q

removeUnitIfPossible(q) ==
    IF IsError(q) THEN q
    ELSE IF isDimensionless(q) THEN Payload(q) ELSE q

Quantity_add(q, y) ==
    LET Y == turn_to_Quantity(y)
    IN  IF IsError(Y) THEN Y
        ELSE IF Dimension_eq(q.unit, Y.unit)
        THEN Quantity(Elementwise("+", Payload(q), Payload(Y)), q.unit)
        ELSE Raise("DimensionError")

\* Quantity.__sub__ without the test of the units.
Quantity_sub_unchecked(q, y) ==
    LET Y == turn_to_Quantity(y)
    IN  IF IsError(Y) THEN Y
        ELSE Quantity(Elementwise("-", Payload(q), Payload(Y)), q.unit)

\* On a mismatch the message is built from y.unit, not Y.unit: a bare y has
\* no such attribute.
Quantity_sub(q, y) ==
    LET Y == turn_to_Quantity(y)
    IN  IF IsError(Y) THEN Y
        ELSE IF Dimension_eq(q.unit, Y.unit)
        THEN Quantity(Elementwise("-", Payload(q), Payload(Y)), q.unit)
        ELSE IF IsQuantity(y) THEN Raise("DimensionError")
        ELSE Raise("AttributeError")

Quantity_mul(q, y) ==
    LET Y == turn_to_Quantity(y)
    IN  IF IsError(Y) THEN Y
        ELSE LET new_val == Elementwise("*", Payload(q), Payload(Y))
                 new_unit == Dimension_mul(q.unit, Y.unit)
             IN  removeUnitIfPossible(Quantity(new_val, new_unit))

Quantity_div(q, y) ==
    LET Y == turn_to_Quantity(y)
    IN  IF IsError(Y) THEN Y
        ELSE LET new_val == Elementwise("/", Payload(q), Payload(Y))
                 new_unit == Dimension_div(q.unit, Y.unit)
             IN  removeUnitIfPossible(Quantity(new_val, new_unit))

Quantity_radd(q, y) == Quantity_add(q, y)

Quantity_rsub(q, y) ==
    LET Y == turn_to_Quantity(y)
    IN  IF IsError(Y) THEN Y ELSE Quantity_sub(Y, q)

Quantity_rmul(q, y) == Quantity_mul(q, y)

Quantity_rdiv(q, y) ==
    LET Y == turn_to_Quantity(y)
    IN  IF IsError(Y) THEN Y ELSE Quantity_div(Y, q)

Quantity_eq(q, y) ==
    LET Y == turn_to_Quantity(y)
    IN  IF IsError(Y) THEN Y
        ELSE IF Dimension_eq(q.unit, Y.unit)
        THEN Compare("==", Payload(q), Payload(Y))
        ELSE Bool(FALSE)

Quantity_ne(q, y) ==
    LET Y == turn_to_Quantity(y)
    IN  IF IsError(Y) THEN Y
        ELSE IF Dimension_eq(q.unit, Y.unit)
        THEN Compare("!=", Payload(q), Payload(Y))
        ELSE Raise("DimensionError")

Quantity_gt(q, y) ==
    LET Y == turn_to_Quantity(y)
    IN  IF IsError(Y) THEN Y
        ELSE IF Dimension_eq(q.unit, Y.unit)
        THEN Compare(">", Payload(q), Payload(Y))
        ELSE Raise("DimensionError")

Quantity_lt(q, y) ==
    LET Y == turn_to_Quantity(y)
    IN  IF IsError(Y) THEN Y
        ELSE IF Dimension_eq(q.unit, Y.unit)
        THEN Compare("<", Payload(q), Payload(Y))
        ELSE Raise("DimensionError")

\* "x or y" of Python: x when bool(x) is true, else y; bool(x) may raise.
PyOr(x, y) ==
    LET t == Truth(x)
    IN  IF IsError(t) THEN t ELSE IF t.value THEN x ELSE y

\* return (self > y or self == y)
Quantity_ge(q, y) == PyOr(Quantity_gt(q, y), Quantity_eq(q, y))

\* return (self < y or self == y)
Quantity_le(q, y) == PyOr(Quantity_lt(q, y), Quantity_eq(q, y))

---------------------------------------------------------------------------
(* Python's dispatch of a binary operator x <op> y: the method of a        *)
(* Quantity on the left, else the reflected method of a Quantity on the    *)
(* right (a number or a numpy array defers to it, see __array_priority__), *)
(* else numpy's own arithmetic.                                            *)

PyAdd(x, y) ==
    CASE IsError(x) -> x
      [] IsError(y) -> y
      [] IsQuantity(x) -> Quantity_add(x, y)
      [] IsQuantity(y) -> Quantity_radd(y, x)
      [] OTHER -> Elementwise("+", x, y)

PySub(x, y) ==
    CASE IsError(x) -> x
      [] IsError(y) -> y
      [] IsQuantity(x) -> Quantity_sub(x, y)
      [] IsQuantity(y) -> Quantity_rsub(y, x)
      [] OTHER -> Elementwise("-", x, y)

PyMul(x, y) ==
    CASE IsError(x) -> x
      [] IsError(y) -> y
      [] IsQuantity(x) -> Quantity_mul(x, y)
      [] IsQuantity(y) -> Quantity_rmul(y, x)
      [] OTHER -> Elementwise("*", x, y)

PyDiv(x, y) ==
    CASE IsError(x) -> x
      [] IsError(y) -> y
      [] IsQuantity(x) -> Quantity_div(x, y)
      [] IsQuantity(y) -> Quantity_rdiv(y, x)
      [] OTHER -> Elementwise("/", x, y)

PyEq(x, y) ==
    CASE IsError(x) -> x
      [] IsError(y) -> y
      [] IsQuantity(x) -> Quantity_eq(x, y)
      [] IsQuantity(y) -> Quantity_eq(y, x)
      [] OTHER -> Compare("==", x, y)

PyNe(x, y) ==
    CASE IsError(x) -> x
      [] IsError(y) -> y
      [] IsQuantity(x) -> Quantity_ne(x, y)
      [] IsQuantity(y) -> Quantity_ne(y, x)
      [] OTHER -> Compare("!=", x, y)

PyLt(x, y) ==
    CASE IsError(x) -> x
      [] IsError(y) -> y
      [] IsQuantity(x) -> Quantity_lt(x, y)
      [] IsQuantity(y) -> Quantity_gt(y, x)
      [] OTHER -> Compare("<", x, y)

PyGt(x, y) ==
    CASE IsError(x) -> x
      [] IsError(y) -> y
      [] IsQuantity(x) -> Quantity_gt(x, y)
      [] IsQuantity(y) -> Quantity_lt(y, x)
      [] OTHER -> Compare(">", x, y)

PyLe(x, y) ==
    CASE IsError(x) -> x
      [] IsError(y) -> y
      [] IsQuantity(x) -> Quantity_le(x, y)
      [] IsQuantity(y) -> Quantity_ge(y, x)
      [] OTHER -> Compare("<=", x, y)

PyGe(x, y) ==
    CASE IsError(x) -> x
      [] IsError(y) -> y
      [] IsQuantity(x) -> Quantity_ge(x, y)
      [] IsQuantity(y) -> Quantity_le(y, x)
      [] OTHER -> Compare(">=", x, y)

---------------------------------------------------------------------------
(* Bounds and the operands the checks draw from                            *)

\* Payloads are the integers 1..MaxValue.
MaxValue == 2

Scalars == {Int2Rat(i) : i \in 1..MaxValue}

\* Array payloads: the arrays of two elements.
Arrays == Scalars \X Scalars

dim_m == Dimension("m")
dim_s == Dimension("s")
dim_kg == Dimension("kg")

QuantityUnits == {Dimension("None"), dim_m, dim_s, Dimension_div(dim_m, dim_s)}

\* Bare numbers, bare arrays, and Quantities of either payload.
Operands ==
    {Number(v) : v \in Scalars} \cup {NdArray(vs) : vs \in Arrays}
    \cup {Quantity(Number(v), u) : v \in Scalars, u \in QuantityUnits}
    \cup {Quantity(NdArray(vs), u) : vs \in Arrays, u \in QuantityUnits}

\* No DataArray.
NoArray == [kind |-> "none"]

---------------------------------------------------------------------------
(* Quantity arithmetic and comparisons: a <op> b on two operands.          *)

InitQuantity ==
    /\ op = "init"
    /\ a \in Operands
    /\ b \in Operands
    /\ self = NoArray
    /\ other = NoArray
    /\ function = "none"
    /\ nb_points = 0
    /\ result = None
    /\ arrays = {}

\* An operation is evaluated once on the operands drawn at the start.
OperandsUnchanged == UNCHANGED <<self, other, a, b, function, nb_points, arrays>>

\* a + b
Add ==
    /\ op = "init"
    /\ op' = "add"
    /\ result' = PyAdd(a, b)
    /\ OperandsUnchanged

\* a - b
Subtract ==
    /\ op = "init"
    /\ op' = "subtract"
    /\ result' = PySub(a, b)
    /\ OperandsUnchanged

\* a * b
Multiply ==
    /\ op = "init"
    /\ op' = "multiply"
    /\ result' = PyMul(a, b)
    /\ OperandsUnchanged

\* a / b
Divide ==
    /\ op = "init"
    /\ op' = "divide"
    /\ result' = PyDiv(a, b)
    /\ OperandsUnchanged

\* a == b
Equal ==
    /\ op = "init"
    /\ op' = "eq"
    /\ result' = PyEq(a, b)
    /\ OperandsUnchanged

\* a != b
NotEqual ==
    /\ op = "init"
    /\ op' = "ne"
    /\ result' = PyNe(a, b)
    /\ OperandsUnchanged

\* a < b
Less ==
    /\ op = "init"
    /\ op' = "lt"
    /\ result' = PyLt(a, b)
    /\ OperandsUnchanged

\* a <= b
LessEqual ==
    /\ op = "init"
    /\ op' = "le"
    /\ result' = PyLe(a, b)
    /\ OperandsUnchanged

\* a > b
Greater ==
    /\ op = "init"
    /\ op' = "gt"
    /\ result' = PyGt(a, b)
    /\ OperandsUnchanged

\* a >= b
GreaterEqual ==
    /\ op = "init"
    /\ op' = "ge"
    /\ result' = PyGe(a, b)
    /\ OperandsUnchanged

NextQuantity ==
    \/ Add
    \/ Subtract
    \/ Multiply
    \/ Divide
    \/ Equal
    \/ NotEqual
    \/ Less
    \/ LessEqual
    \/ Greater
    \/ GreaterEqual

SpecQuantity == InitQuantity /\ [][NextQuantity]_vars

---------------------------------------------------------------------------
(* Claims on the Quantity algebra                                          *)

BothQuantities == IsQuantity(a) /\ IsQuantity(b)

\* C3: add(a, b) and subtract(a, b) on two Quantities succeed exactly when
\* the two Dimensions are equal; the result is then a Quantity of that
\* Dimension whose payload is the sum (resp. difference) of the payloads;
\* when the Dimensions differ the operation raises DimensionError and
\* yields no result.
C3_AddSubDimensionChecked ==
    (op \in {"add", "subtract"} /\ BothQuantities) =>
        IF \A key \in list_of_basic_SI_units : a.unit[key] = b.unit[key]
        THEN /\ IsQuantity(result)
             /\ result.unit = a.unit
             /\ SamePayload(result,
                    IF op = "add"
                    THEN Elementwise("+", Payload(a), Payload(b))
                    ELSE Elementwise("-", Payload(a), Payload(b)))
        ELSE IsError(result) /\ result.exc = "DimensionError"

\* Both branches of C3 happen: a subtraction of two Quantities of equal
\* Dimension has returned, and one of different Dimensions has raised.
C3_Witness ==
    /\ op = "subtract" /\ BothQuantities
    /\ a.unit = dim_m /\ b.unit = dim_m /\ ~a.arr /\ ~b.arr
    /\ a.value = Int2Rat(2) /\ b.value = Int2Rat(1)
    /\ IsQuantity(result) /\ result.value = Int2Rat(1)

\* C4: multiply(a, b) and divide(a, b) on two Quantities never raise; the
\* result Dimension is the exponent-wise sum (resp. difference), the payload
\* the product (resp. quotient); the result is a bare number exactly when
\* that Dimension is dimensionless, so no returned Quantity is dimensionless.
C4_MulDivAutoUnwrap ==
    (op \in {"multiply", "divide"} /\ BothQuantities) =>
        LET d == [key \in list_of_basic_SI_units |->
                    IF op = "multiply" THEN a.unit[key] + b.unit[key]
                    ELSE a.unit[key] - b.unit[key]]
            dimensionless == \A key \in list_of_basic_SI_units : d[key] = 0
            payload == IF op = "multiply"
                       THEN Elementwise("*", Payload(a), Payload(b))
                       ELSE Elementwise("/", Payload(a), Payload(b))
        IN  /\ ~IsError(result)
            /\ IsNumber(result) <=> dimensionless
            /\ IsQuantity(result) <=> ~dimensionless
            /\ IsQuantity(result) => result.unit = d
            /\ SamePayload(result, payload)

\* A division of two Quantities of the same Dimension has returned a bare
\* number (m / m), the case of the automatic unwrapping.
C4_Witness ==
    /\ op = "divide" /\ BothQuantities
    /\ a.unit = dim_m /\ b.unit = dim_m
    /\ IsNumber(result)

\* C5: for two Quantities of different Dimensions == returns false and
\* !=, <, <=, >, >= raise DimensionError; for equal Dimensions each of the
\* six comparisons returns the comparison of the two payloads.
C5_Comparisons ==
    (op \in {"eq", "ne", "lt", "le", "gt", "ge"} /\ BothQuantities) =>
        IF a.unit = b.unit
        THEN /\ result.kind = "bool"
             /\ LET expected ==
                        CASE op = "eq" -> Compare("==", Payload(a), Payload(b))
                          [] op = "ne" -> Compare("!=", Payload(a), Payload(b))
                          [] op = "lt" -> Compare("<", Payload(a), Payload(b))
                          [] op = "le" -> Compare("<=", Payload(a), Payload(b))
                          [] op = "gt" -> Compare(">", Payload(a), Payload(b))
                          [] OTHER -> Compare(">=", Payload(a), Payload(b))
                IN  result.arr = expected.arr /\ result.value = expected.value
        ELSE IF op = "eq"
             THEN result.kind = "bool" /\ ~result.arr /\ result.value = FALSE
             ELSE IsError(result) /\ result.exc = "DimensionError"

---------------------------------------------------------------------------
(* numpy functions used by arrays.py, on sequences of rationals            *)

\* np.diff
diff(X) == [i \in 1..(Len(X) - 1) |-> RatSub(X[i + 1], X[i])]

\* np.arange(start, stop, step): ceil((stop - start) / step) values
\* start + i * step; none when that count is not positive.
arange(start, stop, step) ==
    IF step[1] = 0 THEN Raise("ZeroDivisionError")
    ELSE LET count == RatCeil(RatDiv(RatSub(stop, start), step))
             n == IF count < 0 THEN 0 ELSE count
         IN  NdArray([i \in 1..n |-> RatAdd(start, RatMul(Int2Rat(i - 1), step))])

\* The last index j of xp with xp[j] <= x (0 when there is none): the place
\* np.interp's search finds in an ascending xp.
RECURSIVE SearchSorted(_, _, _)
SearchSorted(x, xp, j) ==
    IF j = 0 THEN 0
    ELSE IF RatLe(xp[j], x) THEN j ELSE SearchSorted(x, xp, j - 1)

\* np.interp(x, xp, fp) at one point x, for ascending xp: fp[first] to the
\* left of xp, fp[last] to its right, and between two samples the line
\* through them.
interp1(x, xp, fp) ==
    LET n == Len(xp)
        j == SearchSorted(x, xp, n)
    IN  CASE RatGt(x, xp[n]) -> fp[n]
          [] RatLt(x, xp[1]) -> fp[1]
          [] j = n -> fp[j]
          [] RatEq(xp[j], x) -> fp[j]
          [] OTHER ->
                LET slope == RatDiv(RatSub(fp[j + 1], fp[j]), RatSub(xp[j + 1], xp[j]))
                IN  RatAdd(RatMul(slope, RatSub(x, xp[j])), fp[j])

\* np.interp(x, xp, fp) on an array x (xp empty: ValueError).
interp(x, xp, fp) ==
    IF Len(xp) = 0 THEN Raise("ValueError")
    ELSE NdArray([i \in 1..Len(x) |-> interp1(x[i], xp, fp)])

\* isInAscendingOrder(np_array): np.all(np.diff(np_array) > 0)
isInAscendingOrder(np_array) ==
    \A i \in 1..(Len(np_array) - 1) : RatGt(diff(np_array)[i], Int2Rat(0))

---------------------------------------------------------------------------
(* arrays.py: DataArray                                                    *)

IsDataArray(x) == x.kind = "DataArray"

\* DataArray.__init__ without the test of the shapes.
DataArray_any_shape(X_with_units, Y_with_units) ==
    [kind |-> "DataArray",
     X_with_units |-> X_with_units,
     Y_with_units |-> Y_with_units,
     X_unit |-> Quantity(Number(Int2Rat(1)), unit(X_with_units)),
     Y_unit |-> Quantity(Number(Int2Rat(1)), unit(Y_with_units)),
     X_without_units |-> Payload(X_with_units).value,
     Y_without_units |-> Payload(Y_with_units).value]

\* DataArray.__init__(X_with_units, Y_with_units).  The message of the
\* shape error names X and Y, which are not defined there: NameError.
DataArray(X_with_units, Y_with_units) ==
    IF IsError(X_with_units) THEN X_with_units
    ELSE IF IsError(Y_with_units) THEN Y_with_units
    ELSE LET X_unit == Quantity(Number(Int2Rat(1)), unit(X_with_units))
             Y_unit == Quantity(Number(Int2Rat(1)), unit(Y_with_units))
             X_without_units == PyDiv(X_with_units, X_unit)
             Y_without_units == PyDiv(Y_with_units, Y_unit)
         IN  IF \/ ~X_without_units.arr
                \/ ~Y_without_units.arr
                \/ Len(X_without_units.value) # Len(Y_without_units.value)
             THEN Raise("NameError")
             ELSE [kind |-> "DataArray",
                   X_with_units |-> X_with_units,
                   Y_with_units |-> Y_with_units,
                   X_unit |-> X_unit,
                   Y_unit |-> Y_unit,
                   X_without_units |-> X_without_units.value,
                   Y_without_units |-> Y_without_units.value]

\* The step taken from self's sampling alone.
x_step_of_self_only(X1, X2) == SeqMin(diff(X1))

\* The common step: min(min(np.diff(X1)), min(np.diff(X2))).
x_step_of(X1, X2) ==
    LET d1 == SeqMin(diff(X1))
        d2 == SeqMin(diff(X2))
    IN  IF RatLt(d2, d1) THEN d2 ELSE d1

\* DataArray.__compute_x_scale(self, other_array): the new grid and both
\* arrays' Y values interpolated on it, or the exception raised.  min() of
\* an empty sequence (an array without samples, np.diff of a single sample)
\* raises ValueError.
compute_x_scale(this, other_array) ==
    LET ne == Quantity_ne(this.X_unit, other_array.X_unit)
        X1 == this.X_without_units
        Y1 == this.Y_without_units
        X2 == other_array.X_without_units
        Y2 == other_array.Y_without_units
    IN  IF IsError(ne) THEN ne
        ELSE IF ne.value THEN Raise("DimensionError")
        ELSE IF Len(X1) < 2 \/ Len(X2) < 2 THEN Raise("ValueError")
        ELSE LET lo1 == SeqMin(X1)
                 lo2 == SeqMin(X2)
                 hi1 == SeqMax(X1)
                 hi2 == SeqMax(X2)
                 x_min == IF RatLt(lo1, lo2) THEN lo2 ELSE lo1
                 x_max == IF RatLt(hi2, hi1) THEN hi2 ELSE hi1
                 x_step == x_step_of(X1, X2)
                 new_x == arange(x_min, RatAdd(x_max, x_step), x_step)
             IN  IF IsError(new_x) THEN new_x
                 ELSE [kind |-> "scale",
                       new_x_with_units |-> PyMul(new_x, this.X_unit),
                       new_self_Y_with_units |->
                           PyMul(interp(new_x.value, X1, Y1), this.Y_unit),
                       new_other_Y_with_units |->
                           PyMul(interp(new_x.value, X2, Y2), other_array.Y_unit)]

\* DataArray.__create_result
create_result(scale, result_with_units) ==
    DataArray(scale.new_x_with_units, result_with_units)

DataArray_add(this, y) ==
    IF IsDataArray(y)
    THEN LET scale == compute_x_scale(this, y)
         IN  IF IsError(scale) THEN scale
             ELSE create_result(scale,
                    PyAdd(scale.new_self_Y_with_units, scale.new_other_Y_with_units))
    ELSE Raise("TypeError")

DataArray_sub(this, y) ==
    IF IsDataArray(y)
    THEN LET scale == compute_x_scale(this, y)
         IN  IF IsError(scale) THEN scale
             ELSE create_result(scale,
                    PySub(scale.new_self_Y_with_units, scale.new_other_Y_with_units))
    ELSE Raise("TypeError")

\* DataArray.__mul__: by a DataArray after resampling, or by a scalar
\* (isinstance(y + 0., float): y + 0. raises for a Quantity with a unit).
DataArray_mul(this, y) ==
    IF IsDataArray(y)
    THEN LET scale == compute_x_scale(this, y)
         IN  IF IsError(scale) THEN scale
             ELSE create_result(scale,
                    PyMul(scale.new_self_Y_with_units, scale.new_other_Y_with_units))
    ELSE LET t == PyAdd(y, Number(Int2Rat(0)))
         IN  IF IsError(t) THEN t
             ELSE IF IsNumber(t) /\ ~t.arr
             THEN DataArray(this.X_with_units, PyMul(this.Y_with_units, y))
             ELSE Raise("TypeError")

\* DataArray.__div__ / __truediv__
DataArray_div(this, y) ==
    IF IsDataArray(y)
    THEN LET scale == compute_x_scale(this, y)
         IN  IF IsError(scale) THEN scale
             ELSE create_result(scale,
                    PyDiv(scale.new_self_Y_with_units, scale.new_other_Y_with_units))
    ELSE LET t == PyAdd(y, Number(Int2Rat(0)))
         IN  IF IsError(t) THEN t
             ELSE IF IsNumber(t) /\ ~t.arr
             THEN DataArray(this.X_with_units, PyDiv(this.Y_with_units, y))
             ELSE Raise("TypeError")

---------------------------------------------------------------------------
(* The DataArrays the checks draw from                                     *)

\* X samples are the integers 0..MaxX.
MaxX == 3

SetMin(S) == CHOOSE x \in S : \A y \in S : x <= y

RECURSIVE Ascending(_)
\* The elements of a set of integers as a strictly ascending sequence.
Ascending(S) ==
    IF S = {} THEN <<>>
    ELSE <<Int2Rat(SetMin(S))>> \o Ascending(S \ {SetMin(S)})

\* Every strictly ascending X sampling of at least two samples.
Grids == {Ascending(S) : S \in {T \in SUBSET (0..MaxX) : Cardinality(T) >= 2}}

\* Y as a function of X: x + 1 (the arrays of testing.py), the constant 1
\* (the second array of the class docstring), and x * x + 1.
Shapes == {"ramp", "flat", "square"}

ShapeValue(shape, x) ==
    CASE shape = "ramp" -> RatAdd(x, Int2Rat(1))
      [] shape = "flat" -> Int2Rat(1)
      [] OTHER -> RatAdd(RatMul(x, x), Int2Rat(1))

\* np.array(X) * x_unit, np.array(Y) * y_unit -> DataArray(...)
MakeArray(X, Y, x_unit, y_unit) ==
    DataArray(PyMul(NdArray(X), Quantity(Number(Int2Rat(1)), x_unit)),
              PyMul(NdArray(Y), Quantity(Number(Int2Rat(1)), y_unit)))

Sampled(X, shape, x_unit, y_unit) ==
    MakeArray(X, [i \in 1..Len(X) |-> ShapeValue(shape, X[i])], x_unit, y_unit)

\* The full sampling, 0..MaxX.
FullGrid == [i \in 1..(MaxX + 1) |-> Int2Rat(i - 1)]

AxisUnits == {Dimension("None"), dim_s, dim_kg}

\* Arrays in s | kg on every sampling and of every shape, and the full
\* ramp (output_vs_time, xy_no_unit of testing.py) in every pair of units.
DataArrays ==
    {Sampled(X, shape, dim_s, dim_kg) : X \in Grids, shape \in Shapes}
    \cup {Sampled(FullGrid, "ramp", xu, yu) : xu \in AxisUnits, yu \in AxisUnits}

---------------------------------------------------------------------------
(* Binary operations between two DataArrays: self <op> other.              *)

InitDataArray ==
    /\ op = "init"
    /\ self \in DataArrays
    /\ other \in DataArrays
    /\ a = None
    /\ b = None
    /\ function = "none"
    /\ nb_points = 0
    /\ result = None
    /\ arrays = {}

\* self + other
ArrayAdd ==
    /\ op = "init"
    /\ op' = "add"
    /\ result' = DataArray_add(self, other)
    /\ OperandsUnchanged

\* self - other
ArraySubtract ==
    /\ op = "init"
    /\ op' = "subtract"
    /\ result' = DataArray_sub(self, other)
    /\ OperandsUnchanged

\* self * other
ArrayMultiply ==
    /\ op = "init"
    /\ op' = "multiply"
    /\ result' = DataArray_mul(self, other)
    /\ OperandsUnchanged

\* self / other
ArrayDivide ==
    /\ op = "init"
    /\ op' = "divide"
    /\ result' = DataArray_div(self, other)
    /\ OperandsUnchanged

NextDataArray ==
    \/ ArrayAdd
    \/ ArraySubtract
    \/ ArrayMultiply
    \/ ArrayDivide

SpecDataArray == InitDataArray /\ [][NextDataArray]_vars

---------------------------------------------------------------------------
(* Claims on the binary operations between DataArrays                      *)

BinaryOps == {"add", "subtract", "multiply", "divide"}

ArrayOperation == op \in BinaryOps /\ IsDataArray(self) /\ IsDataArray(other)

SameDimension(d1, d2) == \A key \in list_of_basic_SI_units : d1[key] = d2[key]

\* The two rationals p and q combined by the operation named o.
Combine(o, p, q) ==
    CASE o = "add" -> RatAdd(p, q)
      [] o = "subtract" -> RatSub(p, q)
      [] o = "multiply" -> RatMul(p, q)
      [] OTHER -> RatDiv(p, q)

\* C6: a binary operation between two DataArrays raises DimensionError when
\* their X Dimensions differ; when they agree, add and subtract raise
\* DimensionError unless the Y Dimensions are equal (the result keeps that
\* Y Dimension), multiply and divide always succeed with the product (resp.
\* quotient) of the Y Dimensions; the result keeps the operands' X
\* Dimension.
C6_ArrayDimensions ==
    ArrayOperation =>
        LET xd1 == self.X_unit.unit
            xd2 == other.X_unit.unit
            yd1 == self.Y_unit.unit
            yd2 == other.Y_unit.unit
            DimensionMismatch == IsError(result) /\ result.exc = "DimensionError"
        IN  IF ~SameDimension(xd1, xd2) THEN DimensionMismatch
            ELSE IF op \in {"add", "subtract"}
            THEN IF SameDimension(yd1, yd2)
                 THEN /\ IsDataArray(result)
                      /\ result.X_unit.unit = xd1
                      /\ result.Y_unit.unit = yd1
                 ELSE DimensionMismatch
            ELSE /\ IsDataArray(result)
                 /\ result.X_unit.unit = xd1
                 /\ result.Y_unit.unit =
                        [key \in list_of_basic_SI_units |->
                            IF op = "multiply" THEN yd1[key] + yd2[key]
                            ELSE yd1[key] - yd2[key]]

\* The bounds of the interval common to both operands.
CommonMin == LET l1 == SeqMin(self.X_without_units)
                 l2 == SeqMin(other.X_without_units)
             IN  IF RatLt(l1, l2) THEN l2 ELSE l1

CommonMax == LET h1 == SeqMax(self.X_without_units)
                 h2 == SeqMax(other.X_without_units)
             IN  IF RatLt(h1, h2) THEN h1 ELSE h2

\* C7: for two DataArrays of strictly ascending X and overlapping ranges,
\* the X grid of the result starts at x_min = max(min(A.X), min(B.X)), ends
\* at x_max = min(max(A.X), max(B.X)), and all of it lies in [x_min, x_max].
C7_GridInCommonInterval ==
    (/\ ArrayOperation
     /\ IsDataArray(result)
     /\ isInAscendingOrder(self.X_without_units)
     /\ isInAscendingOrder(other.X_without_units)
     /\ RatLe(CommonMin, CommonMax)) =>
        LET X == result.X_without_units
        IN  /\ Len(X) >= 1
            /\ RatEq(X[1], CommonMin)
            /\ RatEq(X[Len(X)], CommonMax)
            /\ \A i \in 1..Len(X) : RatLe(CommonMin, X[i]) /\ RatLe(X[i], CommonMax)

\* v is the linear interpolation of the samples (X, Y) at g, the nearest
\* boundary sample's Y outside [X[1], X[Len(X)]] (X strictly ascending).
IsInterpolation(v, g, X, Y) ==
    CASE RatLt(g, X[1]) -> RatEq(v, Y[1])
      [] RatGt(g, X[Len(X)]) -> RatEq(v, Y[Len(X)])
      [] OTHER ->
            \E k \in 1..(Len(X) - 1) :
                /\ RatLe(X[k], g) /\ RatLe(g, X[k + 1])
                \* (v - Y[k]) * (X[k+1] - X[k]) = (g - X[k]) * (Y[k+1] - Y[k])
                /\ RatEq(RatMul(RatSub(v, Y[k]), RatSub(X[k + 1], X[k])),
                         RatMul(RatSub(g, X[k]), RatSub(Y[k + 1], Y[k])))

\* d is the smallest difference between consecutive X samples of either
\* operand.
IsCommonStep(d) ==
    LET D == {RatSub(self.X_without_units[i + 1], self.X_without_units[i]) :
                 i \in 1..(Len(self.X_without_units) - 1)}
             \cup {RatSub(other.X_without_units[i + 1], other.X_without_units[i]) :
                 i \in 1..(Len(other.X_without_units) - 1)}
    IN  d \in D /\ \A e \in D : RatLe(d, e)

\* C8: in the result of a binary operation between DataArrays A and B,
\* consecutive grid points differ by the common step (the smallest
\* difference between consecutive X samples of A or B), and the Y value at
\* every grid point g is op(IA(g), IB(g)), IA and IB being the linear
\* interpolations of A and B at g, clamped to the boundary sample outside
\* the operand's own range.
C8_StepAndInterpolation ==
    (ArrayOperation /\ IsDataArray(result)) =>
        LET X == result.X_without_units
            Y == result.Y_without_units
        IN  /\ \A i \in 1..(Len(X) - 1) : IsCommonStep(RatSub(X[i + 1], X[i]))
            /\ \A i \in 1..Len(X) :
                   \E va \in {interp1(X[i], self.X_without_units, self.Y_without_units)} :
                   \E vb \in {interp1(X[i], other.X_without_units, other.Y_without_units)} :
                       /\ IsInterpolation(va, X[i], self.X_without_units,
                                          self.Y_without_units)
                       /\ IsInterpolation(vb, X[i], other.X_without_units,
                                          other.Y_without_units)
                       /\ RatEq(Y[i], Combine(op, va, vb))

\* A result of several grid points, one of them beyond the last sample of
\* self, where self's Y is clamped, and one strictly between two samples of
\* self, where it is interpolated.
C8_Witness ==
    /\ ArrayOperation /\ op = "add" /\ IsDataArray(result)
    /\ Len(result.X_without_units) >= 2
    /\ RatGt(result.X_without_units[Len(result.X_without_units)],
             SeqMax(self.X_without_units))
    /\ \E i \in 1..Len(result.X_without_units) :
           \A k \in 1..Len(self.X_without_units) :
               RatNe(result.X_without_units[i], self.X_without_units[k])

\* C9: for two DataArrays with the same strictly ascending X sampling,
\* A op B has exactly that X sampling (same length, same X values) and
\* Y[i] = A.Y[i] op B.Y[i] for every index i.
C9_SameSamplingElementwise ==
    (/\ ArrayOperation
     /\ IsDataArray(result)
     /\ isInAscendingOrder(self.X_without_units)
     /\ Len(self.X_without_units) = Len(other.X_without_units)
     /\ \A i \in 1..Len(self.X_without_units) :
            RatEq(self.X_without_units[i], other.X_without_units[i])) =>
        /\ Len(result.X_without_units) = Len(self.X_without_units)
        /\ Len(result.Y_without_units) = Len(self.X_without_units)
        /\ \A i \in 1..Len(self.X_without_units) :
               /\ RatEq(result.X_without_units[i], self.X_without_units[i])
               /\ RatEq(result.Y_without_units[i],
                        Combine(op, self.Y_without_units[i], other.Y_without_units[i]))

---------------------------------------------------------------------------
(* arrays.py: DataArray.__call__ and DataArray.integ                       *)

\* x[i] for a Python index i >= 0: Quantity.__getitem__ or numpy indexing.
Getitem(x, i) ==
    IF i + 1 > Len(x.value) THEN Raise("IndexError")
    ELSE IF IsQuantity(x) THEN Quantity(Number(x.value[i + 1]), x.unit)
    ELSE Number(x.value[i + 1])

\* DataArray.__call__ without the test of the range: np.interp alone.
DataArray_call_any_x(this, x) ==
    LET q == PyDiv(x, this.X_unit)
    IN  IF IsError(q) THEN q
        ELSE IF IsQuantity(q) \/ q.arr THEN Raise("TypeError")
        ELSE PyMul(Number(interp1(q.value, this.X_without_units,
                                  this.Y_without_units)),
                   this.Y_unit)

\* DataArray.__call__(self, x): float(x / self.X_unit) raises TypeError
\* when a unit is left or x is an array; outside [X_min, X_max] ValueError.
DataArray_call(this, x) ==
    LET q == PyDiv(x, this.X_unit)
    IN  IF IsError(q) THEN q
        ELSE IF IsQuantity(q) \/ q.arr THEN Raise("TypeError")
        ELSE IF Len(this.X_without_units) = 0 THEN Raise("ValueError")
        ELSE LET x_without_unit == q.value
                 X_min == PyMul(Number(SeqMin(this.X_without_units)), this.X_unit)
                 X_max == PyMul(Number(SeqMax(this.X_without_units)), this.X_unit)
                 ge == Truth(PyGe(x, X_min))
                 le == Truth(PyLe(x, X_max))
             IN  IF IsError(ge) THEN ge
                 ELSE IF ~ge.value THEN Raise("ValueError")
                 ELSE IF IsError(le) THEN le
                 ELSE IF ~le.value THEN Raise("ValueError")
                 ELSE PyMul(Number(interp1(x_without_unit, this.X_without_units,
                                           this.Y_without_units)),
                            this.Y_unit)

\* (Y2 + Y1) / 2 * (X2 - X1)
Trapezoid(X1, Y1, X2, Y2) ==
    PyMul(PyDiv(PyAdd(Y2, Y1), Number(Int2Rat(2))), PySub(X2, X1))

\* i = 0; while self.X_with_units[i] < xmin: i += 1
\* The index reached, as [kind |-> "index", i |-> i], or the exception.
RECURSIVE integ_first_point(_, _, _)
integ_first_point(this, xmin, i) ==
    LET c == Truth(PyLt(Getitem(this.X_with_units, i), xmin))
    IN  IF IsError(c) THEN c
        ELSE IF c.value THEN integ_first_point(this, xmin, i + 1)
        ELSE [kind |-> "index", i |-> i]

\* while self.X_with_units[i] < xmax: integral += the trapezoid between the
\* samples i-1 and i; i += 1.  The index and the integral reached, or the
\* exception.
RECURSIVE integ_full_trapezoids(_, _, _, _)
integ_full_trapezoids(this, xmax, i, integral) ==
    LET c == Truth(PyLt(Getitem(this.X_with_units, i), xmax))
    IN  IF IsError(c) THEN c
        ELSE IF c.value
        THEN integ_full_trapezoids(this, xmax, i + 1,
                PyAdd(integral,
                      Trapezoid(Getitem(this.X_with_units, i - 1),
                                Getitem(this.Y_with_units, i - 1),
                                Getitem(this.X_with_units, i),
                                Getitem(this.Y_with_units, i))))
        ELSE [kind |-> "index", i |-> i, integral |-> integral]

\* integ without the test xmin > xmax.
integ_bounds_unchecked(xmin, xmax) == Bool(FALSE)

\* if xmin > xmax: raise
integ_bounds_inverted(xmin, xmax) == Truth(PyGt(xmin, xmax))

\* if xmin < min_X or xmax > max_X: raise
integ_out_of_range(xmin, xmax, min_X, max_X) ==
    LET below == Truth(PyLt(xmin, min_X))
    IN  IF IsError(below) THEN below
        ELSE IF below.value THEN below
        ELSE Truth(PyGt(xmax, max_X))

\* DataArray.integ(self, xmin, xmax)
integ(this, xmin, xmax) ==
    IF Len(this.X_without_units) = 0 THEN Raise("ValueError")
    ELSE
    LET min_X == PyMul(Number(SeqMin(this.X_without_units)), this.X_unit)
        max_X == PyMul(Number(SeqMax(this.X_without_units)), this.X_unit)
        inverted == integ_bounds_inverted(xmin, xmax)
        outside == integ_out_of_range(xmin, xmax, min_X, max_X)
        first == integ_first_point(this, xmin, 0)
    IN  IF ~isInAscendingOrder(this.X_without_units) THEN Raise("Exception")
        ELSE IF IsError(inverted) THEN inverted
        ELSE IF inverted.value THEN Raise("Exception")
        ELSE IF IsError(outside) THEN outside
        ELSE IF outside.value THEN Raise("Exception")
        ELSE IF IsError(first) THEN first
        ELSE LET \* reaching first point of integration
                 integral0 == Trapezoid(xmin, DataArray_call(this, xmin),
                                        Getitem(this.X_with_units, first.i),
                                        Getitem(this.Y_with_units, first.i))
                 full == integ_full_trapezoids(this, xmax, first.i + 1, integral0)
             IN  IF IsError(integral0) THEN integral0
                 ELSE IF IsError(full) THEN full
                 ELSE \* reaching last point of integration
                      PyAdd(full.integral,
                            Trapezoid(Getitem(this.X_with_units, full.i - 1),
                                      Getitem(this.Y_with_units, full.i - 1),
                                      xmax, DataArray_call(this, xmax)))

---------------------------------------------------------------------------
(* A.integ(xmin, xmax): the arrays and the bounds the checks draw from     *)

\* X samplings that are not strictly ascending: the full sampling reversed,
\* rotated by one (the [1, 2, 3, 0] of testing.py), and with a repeated
\* sample.
Unsorted ==
    { [i \in 1..(MaxX + 1) |-> Int2Rat(MaxX + 1 - i)],
      [i \in 1..(MaxX + 1) |-> Int2Rat(i % (MaxX + 1))],
      [i \in 1..(MaxX + 1) |-> Int2Rat(IF i = 1 THEN 1 ELSE i - 1)] }

IntegArrays ==
    DataArrays
    \cup {Sampled(X, "ramp", dim_s, dim_kg) : X \in Unsorted}
    \cup {Sampled(X, "ramp", Dimension("None"), Dimension("None")) : X \in Unsorted}

\* The bounds 0, 1/2, 1, ..., MaxX + 1.
HalfSteps == {Rat(k, 2) : k \in 0..(2 * (MaxX + 1))}

\* xmin and xmax are both in s, or both bare numbers.
InitInteg ==
    /\ op = "init"
    /\ self \in IntegArrays
    /\ other = NoArray
    /\ \E u \in {"s", "number"} : \E lo \in HalfSteps, hi \in HalfSteps :
          /\ a = IF u = "s" THEN Quantity(Number(lo), dim_s) ELSE Number(lo)
          /\ b = IF u = "s" THEN Quantity(Number(hi), dim_s) ELSE Number(hi)
    /\ function = "none"
    /\ nb_points = 0
    /\ result = None
    /\ arrays = {}

\* self.integ(a, b)
Integ ==
    /\ op = "init"
    /\ op' = "integ"
    /\ result' = integ(self, a, b)
    /\ OperandsUnchanged

NextInteg == Integ

SpecInteg == InitInteg /\ [][NextInteg]_vars

---------------------------------------------------------------------------
(* Claims on integ                                                         *)

RatMax(p, q) == IF RatLt(p, q) THEN q ELSE p
RatMin(p, q) == IF RatLt(p, q) THEN p ELSE q

\* The value at t of the line through the samples k and k + 1.
OnSegment(X, Y, k, t) ==
    RatAdd(Y[k], RatDiv(RatMul(RatSub(t, X[k]), RatSub(Y[k + 1], Y[k])),
                        RatSub(X[k + 1], X[k])))

\* The integral over [lo, hi] of the piecewise-linear interpolant of the
\* samples (X, Y), X strictly ascending, X[1] <= lo <= hi <= X[Len(X)]:
\* segment by segment from the segment k on, the part of each segment
\* inside [lo, hi].
RECURSIVE ExactIntegral(_, _, _, _, _)
ExactIntegral(X, Y, lo, hi, k) ==
    IF k >= Len(X) THEN Int2Rat(0)
    ELSE LET l == RatMax(X[k], lo)
             h == RatMin(X[k + 1], hi)
             part == IF RatLt(l, h)
                     THEN RatMul(RatDiv(RatAdd(OnSegment(X, Y, k, l),
                                               OnSegment(X, Y, k, h)),
                                        Int2Rat(2)),
                                 RatSub(h, l))
                     ELSE Int2Rat(0)
         IN  RatAdd(part, ExactIntegral(X, Y, lo, hi, k + 1))

IntegCall == op = "integ" /\ IsDataArray(self)

\* The bounds carry the unit of the X axis.
BoundsInXUnit == SameDimension(unit(a), self.X_unit.unit)
                 /\ SameDimension(unit(b), self.X_unit.unit)

\* C1: for a DataArray of strictly ascending X and bounds with
\* min(X) <= xmin <= xmax <= max(X) (between samples, on samples, on the
\* first or the last sample), integ(xmin, xmax) returns, without error, the
\* integral over [xmin, xmax] of the piecewise-linear interpolant of the
\* samples, in the product of the X and Y units.
C1_IntegIsExactIntegral ==
    (/\ IntegCall
     /\ isInAscendingOrder(self.X_without_units)
     /\ BoundsInXUnit
     /\ RatLe(SeqMin(self.X_without_units), a.value)
     /\ RatLe(a.value, b.value)
     /\ RatLe(b.value, SeqMax(self.X_without_units))) =>
        /\ ~IsError(result)
        /\ ~result.arr
        /\ RatEq(result.value,
                 ExactIntegral(self.X_without_units, self.Y_without_units,
                               a.value, b.value, 1))
        /\ SameDimension(unit(result),
                         Dimension_mul(self.X_unit.unit, self.Y_unit.unit))

\* C2: integ(xmin, xmax) raises, and returns no value, whenever xmin > xmax,
\* whenever xmin < min(X) or xmax > max(X), and whenever the X values are
\* not strictly ascending.
C2_IntegRejectsBadBounds ==
    (/\ IntegCall
     /\ \/ RatGt(a.value, b.value)
        \/ RatLt(a.value, SeqMin(self.X_without_units))
        \/ RatGt(b.value, SeqMax(self.X_without_units))
        \/ \E i \in 1..(Len(self.X_without_units) - 1) :
               RatLe(self.X_without_units[i + 1], self.X_without_units[i])) =>
        IsError(result)

\* integ(2 s, 1 s) on the array of testing.py (X = 0..MaxX s, Y = X + 1 kg)
\* has raised: the bounds are inside the range and only xmin > xmax fails.
C2_Witness ==
    /\ IntegCall
    /\ self = Sampled(FullGrid, "ramp", dim_s, dim_kg)
    /\ IsQuantity(a) /\ a.value = Int2Rat(2)
    /\ IsQuantity(b) /\ b.value = Int2Rat(1)
    /\ IsError(result) /\ result.exc = "Exception"

---------------------------------------------------------------------------
(* arrays.py: sampleFunction                                               *)

\* np.linspace(start, stop, num): start + i * (stop - start) / (num - 1).
linspace(start, stop, num) ==
    IF num = 1 THEN <<start>>
    ELSE [i \in 1..num |->
            RatAdd(start, RatDiv(RatMul(Int2Rat(i - 1), RatSub(stop, start)),
                                 Int2Rat(num - 1)))]

unit_s == Quantity(Number(Int2Rat(1)), dim_s)
unit_kg == Quantity(Number(Int2Rat(1)), dim_kg)

\* The functions sampled, each a Python function of one Quantity x:
\*   "linear"  x / s * kg + 1 * kg   (func of test_020_sampleFunction)
\*   "ratio"   x / s
\*   "square"  x * x
\*   "mixed"   x * kg if x > 1 * s else x
Functions == {"linear", "ratio", "square", "mixed"}

CallFunction(f, x) ==
    CASE f = "linear" ->
            PyAdd(PyMul(PyDiv(x, unit_s), unit_kg), PyMul(Number(Int2Rat(1)), unit_kg))
      [] f = "ratio" -> PyDiv(x, unit_s)
      [] f = "square" -> PyMul(x, x)
      [] OTHER ->
            LET c == Truth(PyGt(x, PyMul(Number(Int2Rat(1)), unit_s)))
            IN  IF IsError(c) THEN c
                ELSE IF c.value THEN PyMul(x, unit_kg) ELSE x

\* for i in range(1, nb_points): the values SIValue(function(X_array[i]))
\* appended to Y, or the exception raised.
RECURSIVE sample_loop(_, _, _, _, _)
sample_loop(f, X_array, Y_unit, i, Y) ==
    IF i >= Len(X_array.value) THEN NdArray(Y)
    ELSE LET r == CallFunction(f, Getitem(X_array, i))
         IN  IF IsError(r) THEN r
             ELSE IF ~Dimension_eq(unit(r), Y_unit) THEN Raise("Exception")
             ELSE sample_loop(f, X_array, Y_unit, i + 1, Append(Y, SIValue(r).value))

\* sampleFunction(function, xmin, xmax, nb_points).  Y1.value is read from
\* the first value as an attribute: a bare number has none.
sampleFunction(f, xmin, xmax, nb) ==
    LET X_array == Quantity(NdArray(linspace(SIValue(xmin).value, SIValue(xmax).value, nb)),
                            unit(xmin))
        Y1 == CallFunction(f, Getitem(X_array, 0))
        Y_unit == unit(Y1)
    IN  IF IsError(Y1) THEN Y1
        ELSE IF ~IsQuantity(Y1) THEN Raise("AttributeError")
        ELSE LET Y_array_without_units == sample_loop(f, X_array, Y_unit, 1, <<Y1.value>>)
             IN  DataArray(X_array, Quantity(Y_array_without_units, Y_unit))

---------------------------------------------------------------------------
(* sampleFunction(function, a, b, nb_points): the inputs the checks draw    *)

\* At most MaxPoints samples.
MaxPoints == 4

\* xmin and xmax are whole numbers of 0..MaxX, both in s or both bare.
InitSample ==
    /\ op = "init"
    /\ self = NoArray
    /\ other = NoArray
    /\ \E u \in {"s", "number"} : \E lo \in 0..MaxX, hi \in 0..MaxX :
          /\ a = IF u = "s" THEN Quantity(Number(Int2Rat(lo)), dim_s)
                 ELSE Number(Int2Rat(lo))
          /\ b = IF u = "s" THEN Quantity(Number(Int2Rat(hi)), dim_s)
                 ELSE Number(Int2Rat(hi))
    /\ function \in Functions
    /\ nb_points \in 1..MaxPoints
    /\ result = None
    /\ arrays = {}

\* sampleFunction(function, a, b, nb_points)
SampleFunction ==
    /\ op = "init"
    /\ op' = "sampleFunction"
    /\ result' = sampleFunction(function, a, b, nb_points)
    /\ OperandsUnchanged

NextSample == SampleFunction

SpecSample == InitSample /\ [][NextSample]_vars

---------------------------------------------------------------------------
(* Claims on sampleFunction                                                *)

\* The abscissa x_i = xmin + i * (xmax - xmin) / (n - 1), in xmin's unit.
Abscissa(i) ==
    Quantity(Number(RatAdd(a.value,
                           RatDiv(RatMul(Int2Rat(i), RatSub(b.value, a.value)),
                                  Int2Rat(nb_points - 1)))),
             unit(a))

\* C10: sampleFunction(f, xmin, xmax, n) evaluates f at the n abscissae
\* x_i = xmin + i * (xmax - xmin) / (n - 1), i = 0..n-1, and, whenever f
\* returns the same Dimension at every x_i (whatever that Dimension is),
\* returns the DataArray with X = [x_i] in xmin's Dimension and
\* Y[i] = f(x_i) in that Dimension; it fails when the Dimension of some
\* f(x_i) differs from that of f(x_0).
C10_SampleFunction ==
    (/\ op = "sampleFunction"
     /\ nb_points >= 2
     /\ \A i \in 0..(nb_points - 1) : ~IsError(CallFunction(function, Abscissa(i)))) =>
        LET f0 == CallFunction(function, Abscissa(0))
        IN  IF \A i \in 0..(nb_points - 1) :
                   SameDimension(unit(CallFunction(function, Abscissa(i))), unit(f0))
            THEN /\ IsDataArray(result)
                 /\ Len(result.X_without_units) = nb_points
                 /\ Len(result.Y_without_units) = nb_points
                 /\ SameDimension(result.X_unit.unit, unit(a))
                 /\ SameDimension(result.Y_unit.unit, unit(f0))
                 /\ \A i \in 0..(nb_points - 1) :
                        /\ RatEq(result.X_without_units[i + 1], Abscissa(i).value)
                        /\ RatEq(result.Y_without_units[i + 1],
                                 CallFunction(function, Abscissa(i)).value)
            ELSE IsError(result)

---------------------------------------------------------------------------
(* DataArray(X, Y): the arguments the checks draw from                     *)

\* Sequences handed to the constructor have at most MaxLen elements.
MaxLen == 3

\* Every sequence of at most MaxLen samples among 0..MaxX, in any order.
RawSequences ==
    UNION {[1..n -> {Int2Rat(i) : i \in 0..MaxX}] : n \in 0..MaxLen}

\* value * unit, or the bare value when no unit is named.
WithUnit(value, u) ==
    IF u = "number" THEN value
    ELSE PyMul(value, Quantity(Number(Int2Rat(1)), Dimension(u)))

\* X: a scalar or a one-dimensional array, bare or in s.
ConstructorX ==
    {WithUnit(p, u) :
        p \in {Number(Int2Rat(i)) : i \in 0..MaxX}
              \cup {NdArray(X) : X \in RawSequences},
        u \in {"number", "s"}}

\* Y: a scalar or the array 1, 2, ..., n, bare or in kg.
ConstructorY ==
    {WithUnit(p, u) :
        p \in {Number(Int2Rat(1))}
              \cup {NdArray([i \in 1..n |-> Int2Rat(i)]) : n \in 0..MaxLen},
        u \in {"number", "kg"}}

InitConstruct ==
    /\ op = "init"
    /\ a \in ConstructorX
    /\ b \in ConstructorY
    /\ self = NoArray
    /\ other = NoArray
    /\ function = "none"
    /\ nb_points = 0
    /\ result = None
    /\ arrays = {}

\* DataArray(a, b)
Construct ==
    /\ op = "init"
    /\ op' = "construct"
    /\ result' = DataArray(a, b)
    /\ OperandsUnchanged

NextConstruct == Construct

SpecConstruct == InitConstruct /\ [][NextConstruct]_vars

---------------------------------------------------------------------------
(* Claims on the constructor                                               *)

\* X and Y are one-dimensional and of the same length.
SameShape1D(X, Y) ==
    /\ Payload(X).arr
    /\ Payload(Y).arr
    /\ Len(Payload(X).value) = Len(Payload(Y).value)

C12_NonAscendingRejected ==
    (/\ op = "construct"
     /\ Payload(a).arr
     /\ ~isInAscendingOrder(Payload(a).value))
        => IsError(result)

---------------------------------------------------------------------------
(* A(x): a DataArray called as a function                                  *)

\* x: a position among 0, 1/2, ..., MaxX + 1, bare, in s or in kg.
InitCall ==
    /\ op = "init"
    /\ self \in DataArrays
    /\ other = NoArray
    /\ a \in {WithUnit(Number(x), u) : x \in HalfSteps, u \in {"number", "s", "kg"}}
    /\ b = None
    /\ function = "none"
    /\ nb_points = 0
    /\ result = None
    /\ arrays = {}

\* self(a)
Call ==
    /\ op = "init"
    /\ op' = "call"
    /\ result' = DataArray_call(self, a)
    /\ OperandsUnchanged

NextCall == Call

SpecCall == InitCall /\ [][NextCall]_vars

\* C13: for A with strictly ascending X, A(x) raises the unit error
\* (TypeError) when the Dimension of x is not that of A's X axis, raises the
\* range error (ValueError) when x < min(X) or x > max(X), and otherwise, the
\* two ends included, returns a value of A's Y Dimension that is the linear
\* interpolation of the two samples around x, so that A(X[i]) = Y[i].
C13_CallInterpolates ==
    (op = "call" /\ isInAscendingOrder(self.X_without_units)) =>
        LET X == self.X_without_units
            Y == self.Y_without_units
            x == Payload(a).value
        IN  IF ~Dimension_eq(unit(a), self.X_unit.unit)
            THEN IsError(result) /\ result.exc = "TypeError"
            ELSE IF RatLt(x, SeqMin(X)) \/ RatGt(x, SeqMax(X))
            THEN IsError(result) /\ result.exc = "ValueError"
            ELSE /\ ~IsError(result)
                 /\ ~Payload(result).arr
                 /\ Dimension_eq(unit(result), self.Y_unit.unit)
                 /\ IsInterpolation(Payload(result).value, x, X, Y)
                 /\ \A i \in 1..Len(X) :
                        RatEq(x, X[i]) => RatEq(Payload(result).value, Y[i])

\* A in s | kg called at an x that is none of its samples, returning a
\* value in kg that is none of A's Y samples.
C13_Witness ==
    /\ op = "call"
    /\ IsQuantity(result)
    /\ Dimension_eq(result.unit, dim_kg)
    /\ \A i \in 1..Len(self.X_without_units) :
          /\ ~RatEq(Payload(a).value, self.X_without_units[i])
          /\ ~RatEq(result.value, self.Y_without_units[i])

---------------------------------------------------------------------------
(* arrays.py: DataArray.__rmul__, __neg__, __invert__                      *)

\* DataArray.__rmul__(self, y): self * y
DataArray_rmul(this, y) == DataArray_mul(this, y)

\* y <op> A for a bare Python number y.  The method of float does not know
\* DataArray, so Python calls the reflected method of DataArray when the
\* class defines it and raises TypeError when it does not; the only
\* reflected method that DataArray defines is __rmul__.
Reflected(name, y, this) ==
    IF name = "__rmul__" THEN DataArray_rmul(this, y)
    ELSE Raise("TypeError")

\* DataArray.__neg__(self): 0. - self
DataArray_neg(this) == Reflected("__rsub__", Number(Int2Rat(0)), this)

\* DataArray.__invert__(self): 1. / self
DataArray_invert(this) == Reflected("__rtruediv__", Number(Int2Rat(1)), this)

---------------------------------------------------------------------------
(* A DataArray and a scalar c: A * c, c * A, A / c, -A, ~A                 *)

\* Bare numbers, and scalar Quantities without unit, in s and in kg.
ScalarOperands ==
    {Number(v) : v \in Scalars}
    \cup {Quantity(Number(v), u) : v \in Scalars,
                                   u \in {Dimension("None"), dim_s, dim_kg}}

InitScalar ==
    /\ op = "init"
    /\ self \in DataArrays
    /\ other = NoArray
    /\ a \in ScalarOperands
    /\ b = None
    /\ function = "none"
    /\ nb_points = 0
    /\ result = None
    /\ arrays = {}

\* self * a
ScalarMultiply ==
    /\ op = "init"
    /\ op' = "scalar_mul"
    /\ result' = DataArray_mul(self, a)
    /\ OperandsUnchanged

\* a * self, for a bare number a (for a Quantity a Python evaluates
\* Quantity.__mul__ and never reaches DataArray.__rmul__).
ScalarRMultiply ==
    /\ op = "init"
    /\ IsNumber(a)
    /\ op' = "scalar_rmul"
    /\ result' = Reflected("__rmul__", a, self)
    /\ OperandsUnchanged

\* self / a
ScalarDivide ==
    /\ op = "init"
    /\ op' = "scalar_div"
    /\ result' = DataArray_div(self, a)
    /\ OperandsUnchanged

\* -self
Negate ==
    /\ op = "init"
    /\ op' = "neg"
    /\ result' = DataArray_neg(self)
    /\ OperandsUnchanged

\* ~self
Invert ==
    /\ op = "init"
    /\ op' = "invert"
    /\ result' = DataArray_invert(self)
    /\ OperandsUnchanged

NextScalar ==
    \/ ScalarMultiply
    \/ ScalarRMultiply
    \/ ScalarDivide
    \/ Negate
    \/ Invert

SpecScalar == InitScalar /\ [][NextScalar]_vars

---------------------------------------------------------------------------
(* Claims on scalar operations                                             *)

\* R is a DataArray over self's X whose Y values are F(self.Y[i], c) and
\* whose Y Dimension is y_dim.
ScaledBy(R, F, c, y_dim) ==
    /\ IsDataArray(R)
    /\ R.X_with_units = self.X_with_units
    /\ R.X_without_units = self.X_without_units
    /\ Dimension_eq(R.X_unit.unit, self.X_unit.unit)
    /\ Len(R.Y_without_units) = Len(self.Y_without_units)
    /\ \A i \in 1..Len(self.Y_without_units) :
          RatEq(R.Y_without_units[i], Arith(F, self.Y_without_units[i], c))
    /\ Dimension_eq(R.Y_unit.unit, y_dim)

\* C14: for a scalar c, a bare number or a scalar Quantity of any
\* Dimension, A * c, c * A and A / c return a DataArray over A's own X,
\* with Y[i] = A.Y[i] * c (A.Y[i] / c) in the Dimension of A's Y multiplied
\* (divided) by the Dimension of c.
C14_ScalarMulDiv ==
    /\ op \in {"scalar_mul", "scalar_rmul"} =>
          ScaledBy(result, "*", Payload(a).value,
                   Dimension_mul(self.Y_unit.unit, unit(a)))
    /\ op = "scalar_div" =>
          ScaledBy(result, "/", Payload(a).value,
                   Dimension_div(self.Y_unit.unit, unit(a)))

\* C16: -A evaluates 0 - A and ~A evaluates 1 / A; each returns a DataArray
\* over A's X with the Y values -A.Y[i] in A's Y Dimension (1 / A.Y[i] in
\* the inverse of A's Y Dimension).
C16_NegateInvert ==
    /\ op = "neg" =>
          ScaledBy(result, "*", Int2Rat(-1), self.Y_unit.unit)
    /\ op = "invert" =>
          /\ IsDataArray(result)
          /\ result.X_with_units = self.X_with_units
          /\ Len(result.Y_without_units) = Len(self.Y_without_units)
          /\ \A i \in 1..Len(self.Y_without_units) :
                RatEq(result.Y_without_units[i],
                      RatDiv(Int2Rat(1), self.Y_without_units[i]))
          /\ Dimension_eq(result.Y_unit.unit,
                          Dimension_div(Dimension("None"), self.Y_unit.unit))

---------------------------------------------------------------------------
(* arrays.py: DataArray.__eq__                                             *)

\* x.all() of a comparison result: numpy's reduction for an array of
\* bools.  The False that Quantity.__eq__ returns for two different
\* Dimensions is a Python bool, which has no method all.
PyAll(x) ==
    CASE x.kind = "error" -> x
      [] x.kind = "bool" /\ x.arr -> Bool(\A i \in 1..Len(x.value) : x.value[i])
      [] OTHER -> Raise("AttributeError")

\* DataArray.__eq__(self, y):
\* (self.X == y.X).all() and (self.Y == y.Y).all(); "and" does not evaluate
\* its right operand when the left one is false.
DataArray_eq(this, y) ==
    LET same_X == PyAll(PyEq(this.X_with_units, y.X_with_units))
        same_Y == PyAll(PyEq(this.Y_with_units, y.Y_with_units))
    IN  IF IsError(same_X) THEN same_X
        ELSE IF ~same_X.value THEN same_X
        ELSE same_Y

\* self == other
ArrayEqual ==
    /\ op = "init"
    /\ op' = "array_eq"
    /\ result' = DataArray_eq(self, other)
    /\ OperandsUnchanged

NextEqual == ArrayEqual

SpecEqual == InitDataArray /\ [][NextEqual]_vars

\* The sequences X1 and X2 (with units) have the same length, the same
\* Dimension and equal elements.
SameSequence(X1, X2) ==
    /\ Dimension_eq(unit(X1), unit(X2))
    /\ SamePayload(Payload(X1), Payload(X2))

\* C15: A == B returns true when the X sequences have the same length, the
\* same Dimension and equal elements and so have the Y sequences, and
\* returns false in every other case.
C15_EqualityIsElementwise ==
    op = "array_eq" =>
        /\ result.kind = "bool"
        /\ ~result.arr
        /\ result.value = (/\ SameSequence(self.X_with_units, other.X_with_units)
                           /\ SameSequence(self.Y_with_units, other.Y_with_units))

---------------------------------------------------------------------------
(* units.py: Quantity.__float__, __int__, __complex__                      *)

\* The integer part of a fraction, towards zero.
RatTrunc(p) ==
    IF p[1] >= 0 THEN p[1] \div p[2] ELSE -((-p[1]) \div p[2])

\* float(x) of a bare payload: numpy converts an array of one element and
\* raises TypeError for any other array.
PyFloat(x) ==
    IF x.arr
    THEN IF Len(x.value) = 1 THEN Number(x.value[1]) ELSE Raise("TypeError")
    ELSE Number(x.value)

\* int(x) of a bare payload: the integer part, towards zero.
PyInt(x) ==
    LET f == PyFloat(x)
    IN  IF IsError(f) THEN f ELSE Number(Int2Rat(RatTrunc(f.value)))

\* complex(x) of a bare real payload: the complex number of real part x
\* and imaginary part 0, held as its real part.
PyComplex(x) ==
    LET f == PyFloat(x)
    IN  IF IsError(f) THEN f
        ELSE [kind |-> "complex", arr |-> FALSE, value |-> f.value,
              unit |-> NoUnit, exc |-> "none"]

\* Quantity.__float__(self)
Quantity_float(q) ==
    IF isDimensionless(q) THEN PyFloat(Payload(q)) ELSE Raise("TypeError")

\* Quantity.__int__ without the test of the Dimension.
Quantity_int_unchecked(q) == PyInt(Payload(q))

\* Quantity.__int__(self)
Quantity_int(q) ==
    IF isDimensionless(q) THEN PyInt(Payload(q)) ELSE Raise("TypeError")

\* Quantity.__complex__(self)
Quantity_complex(q) ==
    IF isDimensionless(q) THEN PyComplex(Payload(q)) ELSE Raise("TypeError")

\* Payloads n / 2 between -MaxValue and MaxValue.
Halves == {Rat(k, 2) : k \in (-2 * MaxValue)..(2 * MaxValue)}

\* Quantities of a scalar or array payload in every unit, the empty
\* Dimension included.
Convertibles ==
    {Quantity(Number(v), u) : v \in Halves, u \in QuantityUnits}
    \cup {Quantity(NdArray(vs), u) : vs \in Arrays, u \in QuantityUnits}

InitConvert ==
    /\ op = "init"
    /\ a \in Convertibles
    /\ b = None
    /\ self = NoArray
    /\ other = NoArray
    /\ function = "none"
    /\ nb_points = 0
    /\ result = None
    /\ arrays = {}

\* float(a)
Float ==
    /\ op = "init"
    /\ op' = "float"
    /\ result' = Quantity_float(a)
    /\ OperandsUnchanged

\* int(a)
Int_ ==
    /\ op = "init"
    /\ op' = "int"
    /\ result' = Quantity_int(a)
    /\ OperandsUnchanged

\* complex(a)
Complex ==
    /\ op = "init"
    /\ op' = "complex"
    /\ result' = Quantity_complex(a)
    /\ OperandsUnchanged

NextConvert == Float \/ Int_ \/ Complex

SpecConvert == InitConvert /\ [][NextConvert]_vars

Conversions == {"float", "int", "complex"}

\* C17 as stated: the conversion of a Quantity to float, int or complex
\* succeeds if and only if the Quantity is dimensionless, and then returns
\* the payload.
C17_ConversionIffDimensionless ==
    op \in Conversions =>
        /\ ~IsError(result) <=> Dimension_eq(a.unit, Dimension("None"))
        /\ ~IsError(result) => ~a.arr /\ RatEq(result.value, a.value)

\* C17, amended: the conversion raises TypeError for every Quantity with a
\* nonzero exponent; for a dimensionless Quantity with a scalar payload it
\* succeeds, float and complex returning the payload and int its integer
\* part towards zero; for a dimensionless Quantity whose payload is an
\* array of several elements it raises TypeError as well.
C17_Conversions ==
    op \in Conversions =>
        IF ~Dimension_eq(a.unit, Dimension("None")) \/ a.arr
        THEN IsError(result) /\ result.exc = "TypeError"
        ELSE /\ ~IsError(result)
             /\ ~result.arr
             /\ op \in {"float", "complex"} => RatEq(result.value, a.value)
             /\ op = "int" =>
                   /\ result.value[2] = 1
                   /\ Abs(result.value[1]) * a.value[2] <= Abs(a.value[1])
                   /\ Abs(a.value[1]) < (Abs(result.value[1]) + 1) * a.value[2]
                   /\ result.value[1] * a.value[1] >= 0

\* int() of a dimensionless Quantity of negative payload that is not an
\* integer.
C17_Witness ==
    /\ op = "int"
    /\ ~IsError(result)
    /\ a.value[2] = 2
    /\ a.value[1] < 0
    /\ result.value[1] < 0

---------------------------------------------------------------------------
(* Dimension algebra: d1 * d2 and (d1 * d2) / d2                           *)

\* Exponents of m, s and kg range over -MaxExp..MaxExp.
MaxExp == 1

\* The Dimensions built from m, s and kg with these exponents, and each of
\* the 8 base units alone.
Dimensions ==
    {[key \in list_of_basic_SI_units |->
        CASE key = "m" -> e[1] [] key = "s" -> e[2] [] key = "kg" -> e[3]
          [] OTHER -> 0] :
        e \in ((-MaxExp)..MaxExp) \X ((-MaxExp)..MaxExp) \X ((-MaxExp)..MaxExp)}
    \cup {Dimension(u) : u \in list_of_basic_SI_units}

\* a is d1 and b is d2.
InitDimension ==
    /\ op = "init"
    /\ a \in Dimensions
    /\ b \in Dimensions
    /\ self = NoArray
    /\ other = NoArray
    /\ function = "none"
    /\ nb_points = 0
    /\ result = None
    /\ arrays = {}

\* a * b
DimensionMultiply ==
    /\ op = "init"
    /\ op' = "dimension_mul"
    /\ result' = Dimension_mul(a, b)
    /\ OperandsUnchanged

\* (a * b) / b
DimensionMultiplyDivide ==
    /\ op = "init"
    /\ op' = "dimension_mul_div"
    /\ result' = Dimension_div(Dimension_mul(a, b), b)
    /\ OperandsUnchanged

NextDimension == DimensionMultiply \/ DimensionMultiplyDivide

SpecDimension == InitDimension /\ [][NextDimension]_vars

---------------------------------------------------------------------------
(* units.py: displayNumber, the units defined by the module, Quantity.disp *)

DISPLAY_DIGITS == 3
EXP_THRESHOLD == DISPLAY_DIGITS

RECURSIVE Pow10(_)
\* 10 ** e for an integer e.
Pow10(e) ==
    IF e = 0 THEN Int2Rat(1)
    ELSE IF e > 0 THEN RatMul(Int2Rat(10), Pow10(e - 1))
    ELSE RatDiv(Pow10(e + 1), Int2Rat(10))

\* The integer nearest to p, the even one of two equally near.
RatRound(p) ==
    LET q == p[1] \div p[2]
        r == p[1] - q * p[2]
    IN  IF 2 * r < p[2] THEN q
        ELSE IF 2 * r > p[2] THEN q + 1
        ELSE IF q % 2 = 0 THEN q ELSE q + 1

\* p < q for rationals far apart in magnitude: the integer parts first,
\* then the fractional parts.
RatBelow(p, q) ==
    IF p[1] \div p[2] # q[1] \div q[2]
    THEN p[1] \div p[2] < q[1] \div q[2]
    ELSE (p[1] % p[2]) * q[2] < (q[1] % q[2]) * p[2]

RECURSIVE Exponent10(_, _)
\* The decimal exponent of x # 0: the e with 10**e <= |x| < 10**(e + 1).
Exponent10(x, e) ==
    IF RatBelow(RatAbs(x), Pow10(e)) THEN Exponent10(x, e - 1)
    ELSE IF ~RatBelow(RatAbs(x), Pow10(e + 1)) THEN Exponent10(x, e + 1)
    ELSE e

\* A formatted number: digits holds the digits printed, read as an integer
\* (the number printed times 10 ** DISPLAY_DIGITS, the mantissa for the
\* notation "E"), exponent the printed exponent (0 for the notation "f").

\* '%.3E' % number
scientific(number) ==
    IF number[1] = 0 THEN [notation |-> "E", digits |-> 0, exponent |-> 0]
    ELSE LET e == Exponent10(number, 0)
             mantissa == RatRound(RatMul(RatDiv(number, Pow10(e)),
                                         Pow10(DISPLAY_DIGITS)))
         IN  IF Abs(mantissa) = Pow10(DISPLAY_DIGITS + 1)[1]
             THEN [notation |-> "E", digits |-> mantissa \div 10, exponent |-> e + 1]
             ELSE [notation |-> "E", digits |-> mantissa, exponent |-> e]

\* '%.3f' % number
classic(number) ==
    [notation |-> "f",
     digits |-> RatRound(RatMul(number, Pow10(DISPLAY_DIGITS))),
     exponent |-> 0]

\* displayNumber(number) for a real number.
displayNumber(number) ==
    IF \/ ~RatBelow(RatAbs(number), Pow10(EXP_THRESHOLD))
       \/ RatBelow(RatAbs(number), Pow10(-EXP_THRESHOLD))
    THEN scientific(number)
    ELSE classic(number)

\* defineUnit(symbol, quantity): the Quantity bound to the symbol.
defineUnit(quantity) == Quantity(SIValue(quantity), unit(quantity))

unit_m == Quantity(Number(Int2Rat(1)), dim_m)
\* defineSubmultiples: km = 1e3 * m
unit_km == PyMul(Number(Int2Rat(1000)), unit_m)
\* ft = 0.3048*m
unit_ft == PyMul(Number(Rat(3048, 10000)), unit_m)
\* kft = 1000*ft
unit_kft == PyMul(Number(Int2Rat(1000)), unit_ft)
\* defineUnit('J', kg * (m / s)**2)
unit_J == defineUnit(PyMul(unit_kg, PyMul(PyDiv(unit_m, unit_s), PyDiv(unit_m, unit_s))))
\* defineUnit('W', J/s)
unit_W == defineUnit(PyDiv(unit_J, unit_s))

\* The names of unit Quantities that the checks use.
UnitNames == {"m", "km", "ft", "kft", "s", "kg", "J", "W", "unitless"}

\* eval(unit_str) in the namespace of units.py: a unit Quantity, or for
\* DISPLAY_DIGITS a number.
Namespace(unit_str) ==
    CASE unit_str = "m" -> unit_m
      [] unit_str = "km" -> unit_km
      [] unit_str = "ft" -> unit_ft
      [] unit_str = "kft" -> unit_kft
      [] unit_str = "s" -> unit_s
      [] unit_str = "kg" -> unit_kg
      [] unit_str = "J" -> unit_J
      [] unit_str = "W" -> unit_W
      [] unit_str = "unitless" -> unitless
      [] OTHER -> Number(Int2Rat(DISPLAY_DIGITS))

\* A Python string: the text of a name, or a formatted number followed by
\* a unit name.
Str(text) == [kind |-> "str", value |-> text]
Displayed(number, unit_str) ==
    [kind |-> "str", number |-> number, unit_str |-> unit_str]

\* Quantity.disp printing the value in SI units whatever the unit named.
disp_SI_value(q, unit_str) ==
    LET unit_ == Namespace(unit_str)
    IN  IF ~IsQuantity(unit_) THEN Raise("Exception")
        ELSE IF IsQuantity(Quantity_div(q, unit_)) THEN Raise("Exception")
        ELSE Displayed(displayNumber(q.value), unit_str)

\* Quantity.disp(self, unit_str) for a unit_str that is given and a scalar
\* value (without unit_str, disp is __repr__).
disp(q, unit_str) ==
    LET unit_ == Namespace(unit_str)
        value == Quantity_div(q, unit_)
    IN  IF ~IsQuantity(unit_) THEN Raise("Exception")
        ELSE IF IsError(value) THEN value
        ELSE IF IsQuantity(value) THEN Raise("Exception")  \* residual unit
        ELSE Displayed(displayNumber(value.value), unit_str)

\* The values displayed: 1/2, 1..MaxValue and 20 of each unit.
DispQuantities ==
    {PyMul(Number(p), Namespace(u)) :
        p \in {Rat(1, 2), Int2Rat(20)} \cup Scalars,
        u \in UnitNames \ {"unitless"}}
    \cup {unitless}

\* a.disp(b)
InitDisp ==
    /\ op = "init"
    /\ a \in DispQuantities
    /\ b \in {Str(u) : u \in UnitNames \cup {"DISPLAY_DIGITS"}}
    /\ self = NoArray
    /\ other = NoArray
    /\ function = "none"
    /\ nb_points = 0
    /\ result = None
    /\ arrays = {}

Disp ==
    /\ op = "init"
    /\ op' = "disp"
    /\ result' = disp(a, b.value)
    /\ OperandsUnchanged

NextDisp == Disp

SpecDisp == InitDisp /\ [][NextDisp]_vars

\* The formatted number shown denotes x to the last digit printed:
\* |digits - x * 10 ** (DISPLAY_DIGITS - exponent)| is at most 1/2.
Denotes(shown, x) ==
    LET scaled == RatMul(RatMul(x, Pow10(-shown.exponent)), Pow10(DISPLAY_DIGITS))
    IN  RatLe(RatAbs(RatSub(Int2Rat(shown.digits), scaled)), Rat(1, 2))

\* C19: q.disp(u) for the name u of a unit Quantity returns a text exactly
\* when that unit has the Dimension of q: the payload of q divided by the
\* payload of the unit, followed by the name u (20 kft in km shows 6.096,
\* 2 J/s in W shows 2.000); when a Dimension is left after the division
\* (2 J in W) it raises.
C19_DispInUnit ==
    (op = "disp" /\ b.value \in UnitNames) =>
        LET u == Namespace(b.value)
        IN  /\ IF Dimension_eq(u.unit, a.unit)
               THEN /\ result.kind = "str"
                    /\ result.unit_str = b.value
                    /\ Denotes(result.number, RatDiv(a.value, u.value))
               ELSE IsError(result)
            /\ (a = PyMul(Number(Int2Rat(20)), unit_kft) /\ b.value = "km") =>
                  result = Displayed([notation |-> "f", digits |-> 6096,
                                      exponent |-> 0], "km")
            /\ (a = PyDiv(PyMul(Number(Int2Rat(2)), unit_J), unit_s) /\ b.value = "W") =>
                  result = Displayed([notation |-> "f", digits |-> 2000,
                                      exponent |-> 0], "W")
            /\ (a = PyMul(Number(Int2Rat(2)), unit_J) /\ b.value = "W") =>
                  IsError(result)

\* 20 kft displayed in km: 6.096 km.
C19_Witness ==
    /\ op = "disp"
    /\ a = PyMul(Number(Int2Rat(20)), unit_kft)
    /\ b.value = "km"
    /\ result.kind = "str"
    /\ result.number.digits = 6096

---------------------------------------------------------------------------
(* units.py: Quantity.__mod__, and raw numbers as operands                 *)

\* numpy's elementwise x % y on two bare numbers.
Remainder(x, y) ==
    CASE ~x.arr /\ ~y.arr -> Number(RatMod(x.value, y.value))
      [] x.arr /\ ~y.arr ->
            NdArray([i \in 1..Len(x.value) |-> RatMod(x.value[i], y.value)])
      [] ~x.arr /\ y.arr ->
            NdArray([i \in 1..Len(y.value) |-> RatMod(x.value, y.value[i])])
      [] OTHER ->
            IF Len(x.value) = Len(y.value)
            THEN NdArray([i \in 1..Len(x.value) |-> RatMod(x.value[i], y.value[i])])
            ELSE Raise("ValueError")

\* Quantity.__mod__(self, y)
Quantity_mod(q, y) ==
    LET Y == turn_to_Quantity(y)
    IN  IF IsError(Y) THEN Y
        ELSE IF Dimension_eq(q.unit, Y.unit)
        THEN Quantity(Remainder(Payload(q), Payload(Y)), q.unit)
        ELSE Raise("DimensionError")

\* x % y: Quantity.__mod__ for a Quantity on the left.  Quantity defines no
\* __rmod__: with a number or an array on the left and a Quantity on the
\* right no method applies and Python raises TypeError.
PyMod(x, y) ==
    CASE IsError(x) -> x
      [] IsError(y) -> y
      [] IsQuantity(x) -> Quantity_mod(x, y)
      [] IsQuantity(y) -> Raise("TypeError")
      [] OTHER -> Remainder(x, y)

\* a % b
Modulo ==
    /\ op = "init"
    /\ op' = "modulo"
    /\ result' = PyMod(a, b)
    /\ OperandsUnchanged

NextPromotion == NextQuantity \/ Modulo

SpecPromotion == InitQuantity /\ [][NextPromotion]_vars

\* The operation named o on x and y.
QuantityOperation(o, x, y) ==
    CASE o = "add" -> PyAdd(x, y)
      [] o = "subtract" -> PySub(x, y)
      [] o = "multiply" -> PyMul(x, y)
      [] o = "divide" -> PyDiv(x, y)
      [] o = "modulo" -> PyMod(x, y)
      [] o = "eq" -> PyEq(x, y)
      [] o = "ne" -> PyNe(x, y)
      [] o = "lt" -> PyLt(x, y)
      [] o = "le" -> PyLe(x, y)
      [] o = "gt" -> PyGt(x, y)
      [] OTHER -> PyGe(x, y)

\* One operand is a Quantity and the other a raw number or array.
OneRawOperand ==
    \/ IsQuantity(a) /\ IsNumber(b)
    \/ IsNumber(a) /\ IsQuantity(b)

\* C20: in a binary operation on a Quantity and a raw number, in either
\* order, the raw number behaves as the dimensionless Quantity of the same
\* payload; add, subtract, modulo and the ordering comparisons of a Quantity
\* of nonzero Dimension with a raw number raise DimensionError and nothing
\* else.
C20_RawNumberPromoted ==
    (op # "init" /\ OneRawOperand) =>
        /\ result = QuantityOperation(op, turn_to_Quantity(a), turn_to_Quantity(b))
        /\ (/\ op \in {"add", "subtract", "modulo", "lt", "le", "gt", "ge"}
            /\ ~Dimension_eq(unit(a), unit(b)))
              => IsError(result) /\ result.exc = "DimensionError"

---------------------------------------------------------------------------
(* units.py and arrays.py: power and absolute value                        *)

RECURSIVE RatPow(_, _)
\* p ** n for a whole number n (p # 0 when n < 0).
RatPow(p, n) ==
    IF n = 0 THEN Int2Rat(1)
    ELSE IF n < 0 THEN RatDiv(Int2Rat(1), RatPow(p, -n))
    ELSE RatMul(p, RatPow(p, n - 1))

\* Dimension.__pow__(self, y) for a whole number y.
Dimension_pow(x, y) == [key \in list_of_basic_SI_units |-> x[key] * y]

\* numpy's x ** y and abs(x) on a bare number or array x, y a whole number.
Power(x, y) ==
    IF x.arr THEN NdArray([i \in 1..Len(x.value) |-> RatPow(x.value[i], y)])
    ELSE Number(RatPow(x.value, y))

Absolute(x) ==
    IF x.arr THEN NdArray([i \in 1..Len(x.value) |-> RatAbs(x.value[i])])
    ELSE Number(RatAbs(x.value))

\* Quantity.__pow__(self, y): y is a real number (np.isreal(y)), else
\* TypeError.
Quantity_pow(q, y) ==
    IF IsNumber(y) /\ ~y.arr
    THEN removeUnitIfPossible(
             Quantity(Power(Payload(q), y.value[1]), Dimension_pow(q.unit, y.value[1])))
    ELSE Raise("TypeError")

\* Quantity.__abs__(self)
Quantity_abs(q) == Quantity(Absolute(Payload(q)), q.unit)

\* x ** y for a scalar y
PyPow(x, y) ==
    CASE IsError(x) -> x
      [] IsError(y) -> y
      [] IsQuantity(x) -> Quantity_pow(x, y)
      [] IsNumber(y) /\ ~y.arr -> Power(x, y.value[1])
      [] OTHER -> Raise("TypeError")

\* abs(x)
PyAbs(x) ==
    CASE IsError(x) -> x
      [] IsQuantity(x) -> Quantity_abs(x)
      [] OTHER -> Absolute(x)

\* DataArray.__pow__(self, y): float(y) and the construction are inside a
\* try whose except clause turns every exception into TypeError.
DataArray_pow(this, y) ==
    LET power == IF IsQuantity(y) THEN Quantity_float(y) ELSE PyFloat(y)
        new_array == DataArray(this.X_with_units, PyPow(this.Y_with_units, y))
    IN  IF IsError(power) \/ IsError(new_array) THEN Raise("TypeError")
        ELSE new_array

\* DataArray.__abs__(self)
DataArray_abs(this) ==
    DataArray(this.X_with_units,
              PyAbs(PyMul(NdArray(this.Y_without_units), this.Y_unit)))

---------------------------------------------------------------------------
(* The DataArrays in existence: arrays holds every DataArray that a        *)
(* construction, a sampleFunction call or an operation has returned, each  *)
(* operation taking its operands among them.                               *)

\* At most MaxArrays DataArrays exist at a time.
MaxArrays == 3

\* The X samplings i..j within 0..MaxX, of any number of samples (none
\* when i > j).
Samplings == {SubSeq(FullGrid, i, j) : i, j \in 1..(MaxX + 1)}

\* The numbers a DataArray is multiplied and divided by, and raised to.
Factors == {Number(c) : c \in Scalars}

\* The DataArrays in existence once an operation has returned outcome.
Existing(outcome) == IF IsDataArray(outcome) THEN arrays \cup {outcome} ELSE arrays

InitLifecycle ==
    /\ op = "init"
    /\ self = NoArray
    /\ other = NoArray
    /\ a = None
    /\ b = None
    /\ function = "none"
    /\ nb_points = 0
    /\ result = None
    /\ arrays = {}

\* DataArray(X * s, Y * kg)
NewDataArray ==
    /\ Cardinality(arrays) < MaxArrays
    /\ \E X \in Samplings :
          result' = Sampled(X, "ramp", dim_s, dim_kg)
    /\ op' = "construct"
    /\ arrays' = Existing(result')
    /\ UNCHANGED <<self, other, a, b, function, nb_points>>

\* sampleFunction(func, 0 * s, MaxX * s, nb_points)
NewSampleFunction ==
    /\ Cardinality(arrays) < MaxArrays
    /\ \E n \in 1..MaxPoints :
          result' = sampleFunction("linear", Quantity(Number(Int2Rat(0)), dim_s),
                                   Quantity(Number(Int2Rat(MaxX)), dim_s), n)
    /\ op' = "sampleFunction"
    /\ arrays' = Existing(result')
    /\ UNCHANGED <<self, other, a, b, function, nb_points>>

\* x + y
NewAdd ==
    /\ Cardinality(arrays) < MaxArrays
    /\ \E x \in arrays, y \in arrays : result' = DataArray_add(x, y)
    /\ op' = "add"
    /\ arrays' = Existing(result')
    /\ UNCHANGED <<self, other, a, b, function, nb_points>>

\* x - y
NewSub ==
    /\ Cardinality(arrays) < MaxArrays
    /\ \E x \in arrays, y \in arrays : result' = DataArray_sub(x, y)
    /\ op' = "subtract"
    /\ arrays' = Existing(result')
    /\ UNCHANGED <<self, other, a, b, function, nb_points>>

\* x * y for a DataArray or a number y
NewMul ==
    /\ Cardinality(arrays) < MaxArrays
    /\ \E x \in arrays, y \in arrays \cup Factors : result' = DataArray_mul(x, y)
    /\ op' = "multiply"
    /\ arrays' = Existing(result')
    /\ UNCHANGED <<self, other, a, b, function, nb_points>>

\* x / y for a DataArray or a number y; the Y values of a divisor array are
\* positive (a division by zero gives inf or nan, which are outside the
\* model).
NewDiv ==
    /\ Cardinality(arrays) < MaxArrays
    /\ \E x \in arrays, y \in arrays \cup Factors :
          /\ IsDataArray(y) =>
                \A i \in 1..Len(y.Y_without_units) : y.Y_without_units[i][1] > 0
          /\ result' = DataArray_div(x, y)
    /\ op' = "divide"
    /\ arrays' = Existing(result')
    /\ UNCHANGED <<self, other, a, b, function, nb_points>>

\* x ** y for a whole number y
NewPow ==
    /\ Cardinality(arrays) < MaxArrays
    /\ \E x \in arrays, y \in Factors : result' = DataArray_pow(x, y)
    /\ op' = "pow"
    /\ arrays' = Existing(result')
    /\ UNCHANGED <<self, other, a, b, function, nb_points>>

\* abs(x)
NewAbs ==
    /\ Cardinality(arrays) < MaxArrays
    /\ \E x \in arrays : result' = DataArray_abs(x)
    /\ op' = "abs"
    /\ arrays' = Existing(result')
    /\ UNCHANGED <<self, other, a, b, function, nb_points>>

NextLifecycle ==
    \/ NewDataArray
    \/ NewSampleFunction
    \/ NewAdd
    \/ NewSub
    \/ NewMul
    \/ NewDiv
    \/ NewPow
    \/ NewAbs

SpecLifecycle == InitLifecycle /\ [][NextLifecycle]_vars

\* X and Y of the DataArray x have the same length, at least 2.
WellFormed(x) ==
    /\ Len(x.X_without_units) = Len(x.Y_without_units)
    /\ Len(x.X_without_units) >= 2

\* C21: every DataArray in existence has X and Y of equal length, at least
\* 2, whatever constructions, sampleFunction calls and operations came
\* before; an operation on two arrays whose X ranges share one point or
\* none fails or returns such an array.
C21_LengthAtLeastTwo == \A x \in arrays : WellFormed(x)

---------------------------------------------------------------------------
(* What the operations of a DataArray write on their operands.  self and   *)
(* other are the two objects, a and b the copies taken of them before any  *)
(* operation (copy.deepcopy); the operations follow each other in any      *)
(* order.  An object is its record of attributes: the methods __add__ ..   *)
(* __div__ give self six attributes more, every other method assigns       *)
(* nothing.                                                                *)

\* __compute_x_scale writing the new grid and the resampled values over
\* self.X_with_units and self.Y_with_units.
compute_x_scale_in_place(this, scale) ==
    [this EXCEPT !.X_with_units = scale.new_x_with_units,
                 !.Y_with_units = scale.new_self_Y_with_units]

\* self after the assignments of __compute_x_scale (arrays.py:109-112).
compute_x_scale_assigns(this, scale) ==
    [new_x_with_units |-> scale.new_x_with_units,
     new_self_Y_with_units |-> scale.new_self_Y_with_units,
     new_other_Y_with_units |-> scale.new_other_Y_with_units] @@ this

\* self after the assignments of __create_result (arrays.py:118-120).
create_result_assigns(this) ==
    [new_x |-> None, new_self_Y |-> None, new_other_Y |-> None] @@ this

\* self after self <op> y returned (or raised) outcome, scale being what
\* __compute_x_scale computed: nothing is assigned when it raised, and
\* __create_result assigns only after the new DataArray is constructed.
binary_assigns(this, scale, outcome) ==
    IF IsError(scale) THEN this
    ELSE IF IsDataArray(outcome)
    THEN create_result_assigns(compute_x_scale_assigns(this, scale))
    ELSE compute_x_scale_assigns(this, scale)

\* The arrays operated on: ramps in s | kg on the samplings of two samples
\* or more, and x * x + 1 on the full sampling with Y in each unit.
OperandArrays ==
    {Sampled(X, "ramp", dim_s, dim_kg) : X \in {S \in Samplings : Len(S) >= 2}}
    \cup {Sampled(FullGrid, "square", dim_s, yu) : yu \in AxisUnits}

\* The abscissas given to __call__ and to integ.
Abscissas == {Quantity(Number(Int2Rat(i)), dim_s) : i \in 0..MaxX}

InitFrame ==
    /\ op = "init"
    /\ self \in OperandArrays
    /\ other \in OperandArrays
    /\ a = self
    /\ b = other
    /\ function = "none"
    /\ nb_points = 0
    /\ result = None
    /\ arrays = {}

\* self + other
FrameAdd ==
    /\ op' = "add"
    /\ result' = DataArray_add(self, other)
    /\ self' = binary_assigns(self, compute_x_scale(self, other), result')
    /\ UNCHANGED <<other, a, b, function, nb_points, arrays>>

\* self - other
FrameSub ==
    /\ op' = "subtract"
    /\ result' = DataArray_sub(self, other)
    /\ self' = binary_assigns(self, compute_x_scale(self, other), result')
    /\ UNCHANGED <<other, a, b, function, nb_points, arrays>>

\* self * y for the DataArray other or a number
FrameMul ==
    /\ op' = "multiply"
    /\ \E y \in {other} \cup Factors :
          /\ result' = DataArray_mul(self, y)
          /\ self' = IF IsDataArray(y)
                     THEN binary_assigns(self, compute_x_scale(self, y), result')
                     ELSE self
    /\ UNCHANGED <<other, a, b, function, nb_points, arrays>>

\* self / y for the DataArray other or a number
FrameDiv ==
    /\ op' = "divide"
    /\ \E y \in {other} \cup Factors :
          /\ result' = DataArray_div(self, y)
          /\ self' = IF IsDataArray(y)
                     THEN binary_assigns(self, compute_x_scale(self, y), result')
                     ELSE self
    /\ UNCHANGED <<other, a, b, function, nb_points, arrays>>

\* self ** y
FramePow ==
    /\ op' = "pow"
    /\ \E y \in Factors : result' = DataArray_pow(self, y)
    /\ UNCHANGED <<self, other, a, b, function, nb_points, arrays>>

\* abs(self)
FrameAbs ==
    /\ op' = "abs"
    /\ result' = DataArray_abs(self)
    /\ UNCHANGED <<self, other, a, b, function, nb_points, arrays>>

\* self(x)
FrameCall ==
    /\ op' = "call"
    /\ \E x \in Abscissas : result' = DataArray_call(self, x)
    /\ UNCHANGED <<self, other, a, b, function, nb_points, arrays>>

\* self.integ(xmin, xmax)
FrameInteg ==
    /\ op' = "integ"
    /\ \E xmin \in Abscissas, xmax \in Abscissas : result' = integ(self, xmin, xmax)
    /\ UNCHANGED <<self, other, a, b, function, nb_points, arrays>>

NextFrame ==
    \/ FrameAdd
    \/ FrameSub
    \/ FrameMul
    \/ FrameDiv
    \/ FramePow
    \/ FrameAbs
    \/ FrameCall
    \/ FrameInteg

SpecFrame == InitFrame /\ [][NextFrame]_vars

\* The object x holds the X values, Y values and axis units of copy, and
\* x == copy (DataArray.__eq__) is True.
SameAsCopy(x, copy) ==
    /\ x.X_with_units = copy.X_with_units
    /\ x.Y_with_units = copy.Y_with_units
    /\ x.X_without_units = copy.X_without_units
    /\ x.Y_without_units = copy.Y_without_units
    /\ x.X_unit = copy.X_unit
    /\ x.Y_unit = copy.Y_unit
    /\ DataArray_eq(x, copy) = Bool(TRUE)

\* C22: after any sequence of binary operations, scalar multiplications and
\* divisions, powers, abs, calls and integ, each operand holds the X values,
\* Y values and axis units of the copy taken before the first operation, and
\* compares equal to it.
C22_OperandsNotMutated == SameAsCopy(self, a) /\ SameAsCopy(other, b)

\* self + other has returned a new DataArray on a grid shorter than self's,
\* after writing its working attributes on self.
C22_Witness ==
    /\ op = "add"
    /\ IsDataArray(result)
    /\ self # a
    /\ self.new_x = None
    /\ Len(result.X_without_units) < Len(self.X_without_units)
    /\ SameAsCopy(self, a)

---------------------------------------------------------------------------
(* Commutativity of + and * between DataArrays                             *)

\* Both results are DataArrays of the same X grid, Y values and axis
\* Dimensions, or both operations raise the same exception.
SameOutcome(r1, r2) ==
    IF IsDataArray(r1) /\ IsDataArray(r2)
    THEN /\ r1.X_without_units = r2.X_without_units
         /\ r1.Y_without_units = r2.Y_without_units
         /\ Dimension_eq(r1.X_unit.unit, r2.X_unit.unit)
         /\ Dimension_eq(r1.Y_unit.unit, r2.Y_unit.unit)
         /\ r1 = r2
    ELSE IsError(r1) /\ r1 = r2

\* C23: for two DataArrays of equal X Dimension, self * other and
\* other * self have the same X grid, Y values and axis Dimensions, and so
\* have self + other and other + self when the Y Dimensions are equal too.
C23_Commutative ==
    (ArrayOperation /\ SameDimension(self.X_unit.unit, other.X_unit.unit)) =>
        /\ op = "multiply" => SameOutcome(result, DataArray_mul(other, self))
        /\ (op = "add" /\ SameDimension(self.Y_unit.unit, other.Y_unit.unit)) =>
              SameOutcome(result, DataArray_add(other, self))

\* self + other on two different samplings of different steps and different
\* Y values has returned a DataArray of several samples.
C23_Witness ==
    /\ op = "add"
    /\ IsDataArray(result)
    /\ Len(result.X_without_units) >= 3
    /\ self.X_without_units # other.X_without_units
    /\ SeqMin(diff(self.X_without_units)) # SeqMin(diff(other.X_without_units))
    /\ interp(result.X_without_units, self.X_without_units, self.Y_without_units)
         # interp(result.X_without_units, other.X_without_units, other.Y_without_units)
    /\ SameOutcome(result, DataArray_add(other, self))

===========================================================================
